---- MODULE Spec2Model ----
(***************************************************************************)
(* A model of the chefcognito conversation store (src/lib/chat-service.ts), *)
(* the tool router (src/lib/tool-service.ts), the request/response chat     *)
(* handler (src/app/api/chat/route.ts) and the request gates of the other   *)
(* endpoints.  Time is counted in hours.                                    *)
(***************************************************************************)
EXTENDS Integers, Sequences, FiniteSets, TLC

VARIABLES
    messages,   \* the "messages" collection, in insertion order
    sessions,   \* the "sessions" collection, in insertion order
    now,        \* the server clock (Date.now()), in hours
    ret,        \* the last ChatService call observed: arguments and result
    users,      \* the "users" collection, by clerkId
    toolRet,    \* the last ToolService.executeTool call: arguments and outcome
    h,          \* the requests of POST /api/chat in progress, one per process
    rq,         \* the request in progress at one of the other endpoints
    sse,        \* the request in progress at a streaming endpoint or at the
                \* recipe generation, in detail
    db,         \* the cached database connection and the callers of
                \* connectToDatabase
    pf,         \* the preference store of Mem0Service and its last call
    rc          \* the "recipe_sessions" and "recipes" collections and the
                \* last RecipeService call

storeVars == <<messages, sessions, now>>
toolVars == <<users, toolRet>>
vars == <<messages, sessions, now, ret, users, toolRet, h, rq, sse, db, pf, rc>>

----------------------------------------------------------------------------
(* Bounds of the model *)

MaxTime == 25       \* the clock stops here
FineTicks == 1      \* one-hour steps the clock takes between its day steps
MaxNew == 2         \* messages saved on top of the preloaded ones
Preload == 5        \* messages a preloaded session starts with
MaxLimit == 2       \* largest limit passed to getOlderMessages

(* Program constants *)

RecentHours == 2            \* getRecentMessages' default window
SummaryWindowHours == 24    \* window read by shouldSummarizeSession
SummarizeThreshold == 5     \* more than this many unsummarized messages
DefaultTitle == "New Recipe Chat"

Users == {"u1", "u2"}
SessionIds == {"s1", "s2"}
\* the (user id, session id) pairs in use
Keys == {<<"u1", "s1">>, <<"u2", "s2">>}
Roles == {"user", "assistant"}
Titles == {"", "Dinner"}    \* "" stands for an omitted title argument
TickSteps == {1, SummaryWindowHours}

----------------------------------------------------------------------------
(* Sequences *)

RECURSIVE SelectIdx(_, _, _)
\* the indices i of 1..n, ascending, with keep[i]
SelectIdx(n, keep, i) ==
    IF i > n THEN <<>>
    ELSE IF keep[i] THEN <<i>> \o SelectIdx(n, keep, i + 1)
    ELSE SelectIdx(n, keep, i + 1)

RECURSIVE InsertSorted(_, _, _, _)
\* x inserted into the ascending (by key, sign = 1) or descending (sign = -1)
\* sequence ids, after the elements it ties with
InsertSorted(ids, x, key, sign) ==
    IF ids = <<>> THEN <<x>>
    ELSE IF sign * key[x] < sign * key[Head(ids)] THEN <<x>> \o ids
    ELSE <<Head(ids)>> \o InsertSorted(Tail(ids), x, key, sign)

RECURSIVE SortIds(_, _, _)
SortIds(ids, key, sign) ==
    IF ids = <<>> THEN <<>>
    ELSE InsertSorted(SortIds(Tail(ids), key, sign), Head(ids), key, sign)

Reverse(s) == [i \in 1..Len(s) |-> s[Len(s) + 1 - i]]

Take(s, n) == SubSeq(s, 1, IF n < Len(s) THEN n ELSE Len(s))

Range(s) == {s[i] : i \in 1..Len(s)}

----------------------------------------------------------------------------
(* The document store as ChatService uses it *)

Timestamps(msgs) == [i \in 1..Len(msgs) |-> msgs[i].timestamp]

\* collection.findOne({userId, sessionId}): the first matching document, 0 if none
FindOne(sess, u, s) ==
    IF \E i \in 1..Len(sess) : sess[i].userId = u /\ sess[i].sessionId = s
    THEN CHOOSE i \in 1..Len(sess) :
            /\ sess[i].userId = u /\ sess[i].sessionId = s
            /\ \A j \in 1..(i - 1) : ~(sess[j].userId = u /\ sess[j].sessionId = s)
    ELSE 0

\* insertOne({...message, timestamp: new Date()})
InsertMessage(msgs, message, t) ==
    Append(msgs, [message EXCEPT !.timestamp = t])

\* (mutant) the same update with upsert: true
UpdateSessionMessageCountUpserting(sess, u, s, t) ==
    LET i == FindOne(sess, u, s) IN
    IF i = 0
    THEN Append(sess, [userId |-> u, sessionId |-> s, title |-> "",
                       createdAt |-> 0, updatedAt |-> t, messageCount |-> 1,
                       summarized |-> FALSE, summary |-> {}, lastSummarizedAt |-> 0,
                       storedAtSummary |-> 0])
    ELSE [sess EXCEPT ![i].messageCount = @ + 1, ![i].updatedAt = t]

\* updateOne({userId, sessionId}, {$inc: {messageCount: 1}, $set: {updatedAt}})
UpdateSessionMessageCount(sess, u, s, t) ==
    LET i == FindOne(sess, u, s) IN
    IF i = 0 THEN sess
    ELSE [sess EXCEPT ![i].messageCount = @ + 1, ![i].updatedAt = t]

NewSession(u, s, title, t) ==
    [userId |-> u, sessionId |-> s,
     title |-> IF title = "" THEN DefaultTitle ELSE title,
     createdAt |-> t, updatedAt |-> t, messageCount |-> 0,
     summarized |-> FALSE, summary |-> {}, lastSummarizedAt |-> 0,
     storedAtSummary |-> 0]

\* (mutant) an update that also rewrites the title of the existing session
WriteSessionRetitling(sess, found, u, s, title, t) ==
    IF found # 0
    THEN LET i == FindOne(sess, u, s) IN
         IF i = 0 THEN sess
         ELSE [sess EXCEPT ![i].updatedAt = t,
                           ![i].title = IF title = "" THEN DefaultTitle ELSE title]
    ELSE Append(sess, NewSession(u, s, title, t))

\* the write createOrUpdateSession makes once findOne has answered found
\* (the index of the existing document, 0 if none)
WriteSession(sess, found, u, s, title, t) ==
    IF found # 0
    THEN LET i == FindOne(sess, u, s) IN
         IF i = 0 THEN sess ELSE [sess EXCEPT ![i].updatedAt = t]
    ELSE Append(sess, NewSession(u, s, title, t))

\* updateOne({userId, sessionId}, {$set: {summary, updatedAt, lastSummarizedAt}}).
\* The clock counts hours, so the session also records how many messages
\* were stored when the write landed: those are the messages saved before it
WriteSummary(sess, u, s, summary, t, stored) ==
    LET i == FindOne(sess, u, s) IN
    IF i = 0 THEN sess
    ELSE [sess EXCEPT ![i].summarized = TRUE, ![i].summary = summary,
                      ![i].updatedAt = t, ![i].lastSummarizedAt = t,
                      ![i].storedAtSummary = stored]

\* find({userId, sessionId, timestamp: {$gte: cutoff}}).sort({timestamp: 1})
RecentMessages(msgs, u, s, hoursBack, t) ==
    LET cutoffTime == t - hoursBack
        keep == [i \in 1..Len(msgs) |->
                    /\ msgs[i].userId = u
                    /\ msgs[i].sessionId = s
                    /\ msgs[i].timestamp >= cutoffTime]
    IN SortIds(SelectIdx(Len(msgs), keep, 1), Timestamps(msgs), 1)

\* (mutant) the same query with $lte in place of $lt
OlderMessagesLte(msgs, u, s, beforeDate, limit) ==
    LET keep == [i \in 1..Len(msgs) |->
                    /\ msgs[i].userId = u
                    /\ msgs[i].sessionId = s
                    /\ msgs[i].timestamp <= beforeDate]
    IN Reverse(Take(SortIds(SelectIdx(Len(msgs), keep, 1), Timestamps(msgs), -1),
                    limit))

\* find({userId, sessionId, timestamp: {$lt: beforeDate}})
\*   .sort({timestamp: -1}).limit(limit), then reversed
OlderMessages(msgs, u, s, beforeDate, limit) ==
    LET keep == [i \in 1..Len(msgs) |->
                    /\ msgs[i].userId = u
                    /\ msgs[i].sessionId = s
                    /\ msgs[i].timestamp < beforeDate]
    IN Reverse(Take(SortIds(SelectIdx(Len(msgs), keep, 1), Timestamps(msgs), -1),
                    limit))

\* (mutant) the same decision with >= in place of >
ShouldSummarizeAtThreshold(sess, msgs, u, s, t) ==
    LET i == FindOne(sess, u, s) IN
    IF i = 0 THEN FALSE
    ELSE LET recentMessages == RecentMessages(msgs, u, s, SummaryWindowHours, t)
             keep == [k \in 1..Len(recentMessages) |->
                        IF sess[i].summarized
                        THEN msgs[recentMessages[k]].timestamp > sess[i].lastSummarizedAt
                        ELSE TRUE]
             unsummarizedMessages == SelectIdx(Len(recentMessages), keep, 1)
         IN Len(unsummarizedMessages) >= SummarizeThreshold

\* the decision of shouldSummarizeSession once both reads have answered
ShouldSummarize(sess, msgs, u, s, t) ==
    LET i == FindOne(sess, u, s) IN
    IF i = 0 THEN FALSE
    ELSE LET recentMessages == RecentMessages(msgs, u, s, SummaryWindowHours, t)
             keep == [k \in 1..Len(recentMessages) |->
                        IF sess[i].summarized
                        THEN msgs[recentMessages[k]].timestamp > sess[i].lastSummarizedAt
                        ELSE TRUE]
             unsummarizedMessages == SelectIdx(Len(recentMessages), keep, 1)
         IN Len(unsummarizedMessages) > SummarizeThreshold

----------------------------------------------------------------------------
(* ChatService calls, one action per call *)

\* ret holds one call at a time: a read is recorded when no call is on
\* record, and the next store operation clears the record
NoRet ==
    [op |-> "none", userId |-> "", sessionId |-> "", arg |-> 0,
     limit |-> 0, out |-> "", res |-> <<>>, flag |-> FALSE]

Message(u, s, role, mtype, content) ==
    [userId |-> u, sessionId |-> s, role |-> role, messageType |-> mtype,
     content |-> content, timestamp |-> 0]

\* the clock advances by d hours
Tick(d) ==
    /\ now + d <= MaxTime
    /\ d < SummaryWindowHours => now % SummaryWindowHours < FineTicks
    /\ now' = now + d
    /\ ret' = NoRet
    /\ UNCHANGED <<messages, sessions>>

\* ChatService.saveMessage.  out: "ok", "insertFails" (the insert throws and
\* the call fails) or "countFails" (the count update throws, which
\* updateSessionMessageCount logs and swallows)
DoSaveMessage(message, out) ==
    /\ messages' = IF out = "insertFails" THEN messages
                   ELSE InsertMessage(messages, message, now)
    /\ sessions' = IF out = "ok"
                   THEN UpdateSessionMessageCount(sessions, message.userId,
                                                  message.sessionId, now)
                   ELSE sessions

NewCount(msgs) == Cardinality({i \in 1..Len(msgs) : msgs[i].content # "preloaded"})

SaveMessage(u, s, role, out) ==
    /\ NewCount(messages) < MaxNew
    /\ DoSaveMessage(Message(u, s, role, "general", "text"), out)
    /\ ret' = NoRet
    /\ UNCHANGED now

\* ChatService.createOrUpdateSession.  out: "ok" or "fails" (a storage error,
\* rethrown as "Failed to create or update session")
CreateOrUpdateSession(u, s, title, out) ==
    /\ sessions' = IF out = "ok"
                   THEN WriteSession(sessions, FindOne(sessions, u, s), u, s, title, now)
                   ELSE sessions
    /\ ret' = NoRet
    /\ UNCHANGED <<messages, now>>

\* ChatService.saveContextSummary, with the summary the chat handler passes:
\* one built from the last 24 hours of the session
SaveContextSummary(u, s, out) ==
    /\ sessions' = IF out = "ok"
                   THEN WriteSummary(sessions, u, s,
                            Range(RecentMessages(messages, u, s, SummaryWindowHours, now)),
                            now, Len(messages))
                   ELSE sessions
    /\ ret' = NoRet
    /\ UNCHANGED <<messages, now>>

\* ChatService.getOlderMessages.  out: "ok" or "fails" (a storage error, which
\* is logged and answered with the empty list)
BeforeDates == {messages[i].timestamp : i \in 1..Len(messages)}
                  \cup {now - RecentHours, now + 1}

GetOlderMessages(u, s, beforeDate, limit, out) ==
    /\ ret = NoRet
    /\ ret' = [NoRet EXCEPT !.op = "getOlderMessages", !.userId = u, !.sessionId = s,
                            !.arg = beforeDate, !.limit = limit, !.out = out,
                            !.res = IF out = "ok"
                                    THEN OlderMessages(messages, u, s, beforeDate, limit)
                                    ELSE <<>>]
    /\ UNCHANGED <<messages, sessions, now>>

\* ChatService.getRecentMessages
GetRecentMessages(u, s, hoursBack, out) ==
    /\ ret = NoRet
    /\ ret' = [NoRet EXCEPT !.op = "getRecentMessages", !.userId = u, !.sessionId = s,
                            !.arg = hoursBack, !.out = out,
                            !.res = IF out = "ok"
                                    THEN RecentMessages(messages, u, s, hoursBack, now)
                                    ELSE <<>>]
    /\ UNCHANGED <<messages, sessions, now>>

\* ChatService.shouldSummarizeSession.  out: "ok", "sessionReadFails" (caught
\* by the method itself) or "messagesReadFails" (caught by getRecentMessages,
\* which then answers the empty list)
ShouldSummarizeSession(u, s, out) ==
    /\ ret = NoRet
    /\ ret' = [NoRet EXCEPT !.op = "shouldSummarizeSession", !.userId = u,
                            !.sessionId = s, !.out = out,
                            !.flag = CASE out = "ok" ->
                                            ShouldSummarize(sessions, messages, u, s, now)
                                       [] out = "messagesReadFails" ->
                                            ShouldSummarize(sessions, <<>>, u, s, now)
                                       [] OTHER -> FALSE]
    /\ UNCHANGED <<messages, sessions, now>>

----------------------------------------------------------------------------
(* The tool router: ToolService.executeTool and its eight handlers *)

ToolNames ==
    {"get_chat_history", "get_user_recipes", "search_recipes", "get_recipe_details",
     "get_user_preferences", "get_recent_ingredients", "get_cooking_history",
     "search_conversations"}

DefaultHistoryDays == 7
DefaultHistoryLimit == 50
HoursPerDay == 24

\* User.preferences as createOrUpdateUser writes it for a new user
NewUserPreferences ==
    [dietaryRestrictions |-> {}, allergies |-> {}, dislikedIngredients |-> {},
     preferredCuisines |-> {}, cookingSkillLevel |-> "beginner",
     availableEquipment |-> {}]

NoUser == [exists |-> FALSE, email |-> "", preferences |-> NewUserPreferences]

\* what UserService declares: its methods are instance methods, reached
\* through the exported userService; the class has no static member
UserServiceInstanceMethods ==
    {"createOrUpdateUser", "getUserByClerkId", "updateUserPreferences"}
UserServiceStaticMethods == {}

\* userService.createOrUpdateUser: an existing user keeps createdAt and
\* preferences, a new one gets the empty preferences
CreateOrUpdateUser(coll, clerkId, email) ==
    IF coll[clerkId].exists
    THEN [coll EXCEPT ![clerkId].email = email]
    ELSE [coll EXCEPT ![clerkId] =
            [exists |-> TRUE, email |-> email, preferences |-> NewUserPreferences]]

\* the data payloads, by kind; items are message indices where the kind has any
NullData == [kind |-> "null", items |-> <<>>]

Envelope(success, data, message) ==
    [threw |-> FALSE, success |-> success, data |-> data, message |-> message]

\* a handler that ends with an exception instead of an envelope
Thrown == [threw |-> TRUE, success |-> FALSE, data |-> NullData, message |-> <<>>]

NoParams ==
    [isNull |-> FALSE, sessionId |-> "", query |-> "", recipeName |-> "",
     daysBack |-> 0, limit |-> 0]

\* the parameter mappings tried; "" and 0 stand for an omitted key, isNull for
\* a parameters value that is null rather than a mapping
ParamChoices ==
    {NoParams,
     [NoParams EXCEPT !.isNull = TRUE],
     [NoParams EXCEPT !.query = "pasta"],
     [NoParams EXCEPT !.recipeName = "soup"],
     [NoParams EXCEPT !.recipeName = "soup", !.sessionId = "s1"],
     [NoParams EXCEPT !.sessionId = "s1"],
     [NoParams EXCEPT !.sessionId = "s1", !.daysBack = 1, !.limit = 1]}

\* what the stores behind RecipeService answer during one call: whether its
\* storage access works, whether the recipe session asked for exists, and
\* whether a recipe of the name is in that session or among the search results
EnvChoices ==
    {[recipes |-> r, chat |-> c, sessionFound |-> sf, inSession |-> ins, inSearch |-> ise] :
        r \in {"ok", "fails"}, c \in {"ok", "fails"},
        sf \in BOOLEAN, ins \in BOOLEAN, ise \in BOOLEAN}

GetChatHistory(u, params, env, msgs, t) ==
    IF params.isNull THEN Thrown
    ELSE LET daysBack == IF params.daysBack = 0 THEN DefaultHistoryDays
                         ELSE params.daysBack
             limit == IF params.limit = 0 THEN DefaultHistoryLimit ELSE params.limit
             beforeDate == t - daysBack * HoursPerDay
             found == IF env.chat = "ok"
                      THEN OlderMessages(msgs, u, params.sessionId, beforeDate, limit)
                      ELSE <<>>
         IN Envelope(TRUE, [kind |-> "messages", items |-> found],
                     <<"Retrieved ", "messages from the last ", "days">>)

ToolGetUserRecipes(u, params, env) ==
    IF params.isNull \/ env.recipes = "fails" THEN Thrown
    ELSE Envelope(TRUE, [kind |-> "recipes", items |-> <<>>], <<"Retrieved ", "recipes">>)

ToolSearchRecipes(u, params, env) ==
    IF params.isNull THEN Thrown
    ELSE IF params.query = ""
    THEN Envelope(FALSE, NullData, <<"Search query is required">>)
    ELSE IF env.recipes = "fails" THEN Thrown
    ELSE Envelope(TRUE, [kind |-> "recipes", items |-> <<>>],
                  <<"Found ", "recipes matching ", params.query>>)

ToolGetRecipeDetails(u, params, env) ==
    IF params.isNull THEN Thrown
    ELSE IF params.sessionId # "" /\ env.recipes = "fails" THEN Thrown
    ELSE IF params.sessionId # "" /\ env.sessionFound /\ params.recipeName = ""
    THEN Thrown     \* recipeName.toLowerCase() on an omitted recipeName
    ELSE IF params.sessionId # "" /\ env.sessionFound /\ env.inSession
    THEN Envelope(TRUE, [kind |-> "recipe", items |-> <<>>],
                  <<"Retrieved details for recipe: ", params.recipeName>>)
    ELSE IF env.recipes = "fails" \/ params.recipeName = ""
    THEN Thrown     \* searchRecipes rethrows; an omitted name is no $regex
    ELSE IF env.inSearch
    THEN Envelope(TRUE, [kind |-> "recipe", items |-> <<>>],
                  <<"Retrieved details for recipe: ", params.recipeName>>)
    ELSE Envelope(FALSE, NullData, <<"Recipe ", params.recipeName, " not found">>)

\* the data object getUserPreferences builds from the user document
PreferencesData(user) ==
    [kind |-> "preferences", items |-> <<>>,
     dietaryRestrictions |-> IF user.exists THEN user.preferences.dietaryRestrictions ELSE {},
     allergies |-> IF user.exists THEN user.preferences.allergies ELSE {},
     favoriteIngredients |-> {},
     dislikedIngredients |-> IF user.exists THEN user.preferences.dislikedIngredients ELSE {},
     cookingSkillLevel |-> IF user.exists /\ user.preferences.cookingSkillLevel # ""
                           THEN user.preferences.cookingSkillLevel ELSE "beginner",
     preferredCuisines |-> IF user.exists THEN user.preferences.preferredCuisines ELSE {}]

\* getUserPreferences calls the static UserService.getUser(userId) inside its
\* own try block: calling a member the class does not have is a TypeError,
\* which the catch turns into the failure envelope
ToolGetUserPreferences(u, params, coll) ==
    IF "getUser" \in UserServiceStaticMethods
    THEN Envelope(TRUE, PreferencesData(coll[u]), <<"Retrieved user preferences">>)
    ELSE Envelope(FALSE, NullData, <<"Failed to retrieve user preferences">>)

ToolGetRecentIngredients(u, params, env) ==
    IF params.isNull \/ env.recipes = "fails" THEN Thrown
    ELSE Envelope(TRUE, [kind |-> "ingredients", items |-> <<>>],
                  <<"Retrieved ", "recent ingredients">>)

ToolGetCookingHistory(u, params, env) ==
    IF params.isNull \/ env.recipes = "fails" THEN Thrown
    ELSE Envelope(TRUE, [kind |-> "history", items |-> <<>>],
                  <<"Retrieved cooking history for the last ", "days">>)

ToolSearchConversations(u, params, env) ==
    IF params.isNull THEN Thrown
    ELSE IF params.query = ""
    THEN Envelope(FALSE, NullData, <<"Search query is required">>)
    ELSE Envelope(TRUE, [kind |-> "conversations", items |-> <<>>],
                  <<"Found ", "conversations matching ", params.query>>)

\* a handler called by the switch, with what it ended with
Called(handler, result) == [handler |-> handler, result |-> result]

\* the switch of executeTool: the handler it calls and that handler's outcome;
\* the default case calls none
Dispatch(u, tool, params, env, coll, msgs, t) ==
    CASE tool = "get_chat_history" ->
            Called("getChatHistory", GetChatHistory(u, params, env, msgs, t))
      [] tool = "get_user_recipes" ->
            Called("getUserRecipes", ToolGetUserRecipes(u, params, env))
      [] tool = "search_recipes" ->
            Called("searchRecipes", ToolSearchRecipes(u, params, env))
      [] tool = "get_recipe_details" ->
            Called("getRecipeDetails", ToolGetRecipeDetails(u, params, env))
      [] tool = "get_user_preferences" ->
            Called("getUserPreferences", ToolGetUserPreferences(u, params, coll))
      [] tool = "get_recent_ingredients" ->
            Called("getRecentIngredients", ToolGetRecentIngredients(u, params, env))
      [] tool = "get_cooking_history" ->
            Called("getCookingHistory", ToolGetCookingHistory(u, params, env))
      [] tool = "search_conversations" ->
            Called("searchConversations", ToolSearchConversations(u, params, env))
      [] OTHER -> Called("", Envelope(FALSE, NullData, <<"Unknown tool: ", tool>>))

\* (mutant) handlers returned without await: their rejection passes the catch
ExecuteToolUnawaited(u, tool, params, env, coll, msgs, t) ==
    Dispatch(u, tool, params, env, coll, msgs, t).result

\* ToolService.executeTool: the try/catch around the awaited handler
ExecuteTool(u, tool, params, env, coll, msgs, t) ==
    LET r == Dispatch(u, tool, params, env, coll, msgs, t).result IN
    IF r.threw
    THEN Envelope(FALSE, NullData, <<"Failed to execute tool: ", tool>>)
    ELSE r

NoToolRet ==
    [userId |-> "", tool |-> "", params |-> NoParams, handlers |-> <<>>,
     handlerThrew |-> FALSE, response |-> Envelope(FALSE, NullData, <<>>)]

InitTools ==
    /\ users = [u \in Users |-> NoUser]
    /\ toolRet = NoToolRet

\* POST /api/users/sync, once authorized
SyncUser(u, email) ==
    /\ users' = CreateOrUpdateUser(users, u, email)
    /\ toolRet' = NoToolRet

\* one call of ToolService.executeTool
ExecuteToolCall(u, tool, params, env) ==
    /\ LET called == Dispatch(u, tool, params, env, users, messages, now) IN
       toolRet' = [userId |-> u, tool |-> tool, params |-> params,
                   handlers |-> IF called.handler = "" THEN <<>>
                                ELSE <<called.handler>>,
                   handlerThrew |-> called.result.threw,
                   response |-> ExecuteTool(u, tool, params, env, users, messages, now)]
    /\ UNCHANGED users

ToolStep ==
    \/ \E u \in Users, email \in {"a@x", "b@x"} : SyncUser(u, email)
    \/ \E u \in Users, tool \in ToolNames \cup {"frobnicate", "undefined"},
          params \in ParamChoices, env \in EnvChoices :
          ExecuteToolCall(u, tool, params, env)

----------------------------------------------------------------------------
(* POST /api/chat: the request/response chat handler, one step per await *)

Procs == {"p1", "p2"}
MaxToolRounds == 2      \* tool executions one request is followed through

FirstReply == "first reply"         \* the message of the first model response
SecondReply == "second reply"       \* the message of the second model response
ParseFallback == "I'm here to help with your cooking questions! What would you like to know?"
FoundFallback == "Based on the information I found, I can help you with your cooking questions. What would you like to know?"
TroubleFallback == "I had trouble accessing that information, but I'm still here to help with your cooking questions!"

ReplyTypes == {"general", "tool_call"}
ChatTools == {"search_recipes", "frobnicate"}

NoReply == [type |-> "", message |-> "", tool |-> ""]

\* what the reply model answers: a failed call, a text without braces, a text
\* whose braces hold no JSON, or a JSON object with a type, a message and,
\* for a tool_call, a tool name
ModelResponses(message) ==
    {[kind |-> k, type |-> "", message |-> "", tool |-> ""] :
        k \in {"throws", "nojson", "badjson"}}
    \cup {[kind |-> "json", type |-> ty, message |-> message, tool |-> ""] :
            ty \in ReplyTypes \ {"tool_call"}}
    \cup {[kind |-> "json", type |-> "tool_call", message |-> message, tool |-> tl] :
            tl \in ChatTools}

IdleChat ==
    [pc |-> "idle", userId |-> "", sessionId |-> "", status |-> 0,
     found |-> 0, sessSeen |-> <<>>, transcript |-> {},
     firstType |-> "", ai |-> NoReply, toolOk |-> FALSE,
     writes |-> 0, toolCalls |-> 0, modelCalls |-> 0, summaryCalls |-> 0,
     assistantIdx |-> 0]

\* const { userId } = await auth(); if (!userId) return 401
AfterAuth(userId) ==
    IF userId = "" THEN [pc |-> "done", status |-> 401]
    ELSE [pc |-> "parse", status |-> 0]

\* (mutant) the 400 answer built without return: the handler carries on
AfterParseNoReturn(body, first) ==
    IF body = "invalid" THEN [pc |-> "done", status |-> 500]
    ELSE IF body = "missing" THEN [pc |-> first, status |-> 400]
    ELSE [pc |-> first, status |-> 0]

\* await request.json(); if (!message) return 400, and the like for the
\* required field of the other endpoints; first is the handler's step after
\* the check.  A body that cannot be read makes request.json() throw, which
\* ends the request with 500
AfterParse(body, first) ==
    IF body = "invalid" THEN [pc |-> "done", status |-> 500]
    ELSE IF body = "missing" THEN [pc |-> "done", status |-> 400]
    ELSE [pc |-> first, status |-> 0]

\* the first parse: the JSON object of the text, or the fixed reply
ParseFirst(resp) ==
    IF resp.kind = "json"
    THEN [type |-> resp.type, message |-> resp.message, tool |-> resp.tool]
    ELSE [type |-> "general", message |-> ParseFallback, tool |-> ""]

\* the second parse: aiResponse is assigned only when the text has braces;
\* the catch covers a failed JSON.parse
ParseSecond(ai, resp, toolOk) ==
    IF resp.kind = "json"
    THEN [type |-> resp.type, message |-> resp.message, tool |-> resp.tool]
    ELSE IF resp.kind = "nojson" THEN ai
    ELSE [type |-> "general",
          message |-> IF toolOk THEN FoundFallback ELSE TroubleFallback,
          tool |-> ""]

\* (mutant) a handler that runs the tool round again for a second tool_call
AfterSecondLooping(ai) == IF ai.type = "tool_call" THEN "tool" ELSE "saveAssistant"

\* after the second parse the handler goes on to save the reply
AfterSecond(ai) == "saveAssistant"

\* the outer catch: 500 "Failed to process chat message"; the locals are gone
Failed(r) ==
    [r EXCEPT !.pc = "done", !.status = 500, !.found = 0, !.sessSeen = <<>>,
              !.transcript = {}, !.ai = NoReply, !.firstType = "", !.toolOk = FALSE]

ChatAuth(p, userId) ==
    /\ h[p].pc = "idle"
    /\ h' = [h EXCEPT ![p].pc = AfterAuth(userId).pc,
                      ![p].status = AfterAuth(userId).status,
                      ![p].userId = userId]
    /\ UNCHANGED <<messages, sessions, now>>

ChatParse(p, body, sessionId) ==
    /\ h[p].pc = "parse"
    /\ <<h[p].userId, sessionId>> \in Keys
    /\ h' = [h EXCEPT ![p].pc = AfterParse(body, "findSession").pc,
                      ![p].status = AfterParse(body, "findSession").status,
                      ![p].sessionId = sessionId]
    /\ UNCHANGED <<messages, sessions, now>>

\* createOrUpdateSession: findOne({userId, sessionId})
ChatFindSession(p, out) ==
    /\ h[p].pc = "findSession"
    /\ h' = [h EXCEPT ![p] =
                IF out = "ok"
                THEN [@ EXCEPT !.pc = "writeSession",
                               !.found = FindOne(sessions, h[p].userId, h[p].sessionId)]
                ELSE Failed(@)]
    /\ UNCHANGED <<messages, sessions, now>>

\* createOrUpdateSession: updateOne of the session found, insertOne otherwise
ChatWriteSession(p, out) ==
    /\ h[p].pc = "writeSession"
    /\ sessions' = IF out = "ok"
                   THEN WriteSession(sessions, h[p].found, h[p].userId,
                                     h[p].sessionId, "", now)
                   ELSE sessions
    /\ h' = [h EXCEPT ![p] =
                IF out = "ok"
                THEN [@ EXCEPT !.pc = "readSession", !.found = 0, !.writes = @ + 1]
                ELSE Failed([@ EXCEPT !.writes = @ + 1])]
    /\ UNCHANGED <<messages, now>>

\* shouldSummarizeSession: findOne of the session; a storage error answers false
ChatReadSession(p, out) ==
    /\ h[p].pc = "readSession"
    /\ h' = [h EXCEPT ![p] =
                IF out = "ok" /\ FindOne(sessions, h[p].userId, h[p].sessionId) # 0
                THEN [@ EXCEPT !.pc = "readDay",
                               !.sessSeen = <<sessions[FindOne(sessions, h[p].userId,
                                                          h[p].sessionId)]>>]
                ELSE [@ EXCEPT !.pc = "saveUser"]]
    /\ UNCHANGED <<messages, sessions, now>>

\* shouldSummarizeSession: getRecentMessages(userId, sessionId, 24) and the
\* count of the messages after lastSummarizedAt; a failed read is an empty list
ChatReadDay(p, out) ==
    /\ h[p].pc = "readDay"
    /\ LET should == IF out = "ok"
                     THEN ShouldSummarize(h[p].sessSeen, messages, h[p].userId,
                                          h[p].sessionId, now)
                     ELSE FALSE
       IN h' = [h EXCEPT ![p].pc = IF should THEN "readTranscript" ELSE "saveUser",
                         ![p].sessSeen = <<>>]
    /\ UNCHANGED <<messages, sessions, now>>

\* const recentMessages = await chatService.getRecentMessages(userId, sessionId, 24)
ChatReadTranscript(p, out) ==
    /\ h[p].pc = "readTranscript"
    /\ h' = [h EXCEPT ![p].pc = "summarize",
                      ![p].transcript =
                          IF out = "ok"
                          THEN Range(RecentMessages(messages, h[p].userId,
                                        h[p].sessionId, SummaryWindowHours, now))
                          ELSE {}]
    /\ UNCHANGED <<messages, sessions, now>>

\* summarizeContext: the summarizing model's text, or the counted fallback
\* when its call fails; either is built from the transcript read
ChatSummarize(p) ==
    /\ h[p].pc = "summarize"
    /\ h' = [h EXCEPT ![p].pc = "saveSummary", ![p].summaryCalls = @ + 1]
    /\ UNCHANGED <<messages, sessions, now>>

\* saveContextSummary(userId, sessionId, summary)
ChatSaveSummary(p, out) ==
    /\ h[p].pc = "saveSummary"
    /\ sessions' = IF out = "ok"
                   THEN WriteSummary(sessions, h[p].userId, h[p].sessionId,
                                     h[p].transcript, now, Len(messages))
                   ELSE sessions
    /\ h' = [h EXCEPT ![p] =
                IF out = "ok"
                THEN [@ EXCEPT !.pc = "saveUser", !.transcript = {}, !.writes = @ + 1]
                ELSE Failed([@ EXCEPT !.writes = @ + 1])]
    /\ UNCHANGED <<messages, now>>

\* saveMessage(userMessage)
ChatSaveUser(p, out) ==
    /\ h[p].pc = "saveUser"
    /\ DoSaveMessage(Message(h[p].userId, h[p].sessionId, "user", "general",
                             "user text"), out)
    /\ h' = [h EXCEPT ![p] =
                IF out = "insertFails" THEN Failed([@ EXCEPT !.writes = @ + 1])
                ELSE [@ EXCEPT !.pc = "loadContext", !.writes = @ + 1]]
    /\ UNCHANGED now

\* getRecentMessages(.., 2), getSessionSummary and RecipeService.getUserRecipes:
\* the first two answer empty on a storage error, the third rethrows
ChatLoadContext(p, out) ==
    /\ h[p].pc = "loadContext"
    /\ h' = [h EXCEPT ![p] =
                IF out = "ok" THEN [@ EXCEPT !.pc = "model1"] ELSE Failed(@)]
    /\ UNCHANGED <<messages, sessions, now>>

\* model.generateContent(systemPrompt) and the first parse
ChatModel1(p, resp) ==
    /\ h[p].pc = "model1"
    /\ h' = [h EXCEPT ![p] =
                IF resp.kind = "throws"
                THEN Failed([@ EXCEPT !.modelCalls = @ + 1])
                ELSE [@ EXCEPT !.modelCalls = @ + 1,
                               !.ai = ParseFirst(resp),
                               !.firstType = ParseFirst(resp).type,
                               !.pc = IF ParseFirst(resp).type = "tool_call"
                                      THEN "tool" ELSE "saveAssistant"]]
    /\ UNCHANGED <<messages, sessions, now>>

\* the success flags executeTool can answer with for a tool, over the
\* parameter mappings given and the answers of the stores behind it
ToolSuccesses(u, tool, paramSet) ==
    {ExecuteTool(u, tool, params, env, users, messages, now).success :
        params \in paramSet, env \in EnvChoices}

\* ToolService.executeTool(userId, {tool, parameters || {}, description})
ChatExecuteTool(p, success) ==
    /\ h[p].pc = "tool"
    /\ h[p].toolCalls < MaxToolRounds
    /\ success \in ToolSuccesses(h[p].userId, h[p].ai.tool,
                                 {params \in ParamChoices : ~params.isNull})
    /\ h' = [h EXCEPT ![p].pc = "model2",
                      ![p].toolCalls = @ + 1,
                      ![p].toolOk = success]
    /\ UNCHANGED <<messages, sessions, now>>

\* model.generateContent(enhancedPrompt) and the second parse
ChatModel2(p, resp) ==
    /\ h[p].pc = "model2"
    /\ h' = [h EXCEPT ![p] =
                IF resp.kind = "throws"
                THEN Failed([@ EXCEPT !.modelCalls = @ + 1])
                ELSE [@ EXCEPT !.modelCalls = @ + 1,
                               !.ai = ParseSecond(h[p].ai, resp, h[p].toolOk),
                               !.pc = AfterSecond(ParseSecond(h[p].ai, resp,
                                                              h[p].toolOk))]]
    /\ UNCHANGED <<messages, sessions, now>>

\* saveMessage(assistantMessage) and the 200 answer {message: aiResponse.message,
\* type: aiResponse.type, sessionId}
ChatSaveAssistant(p, out) ==
    /\ h[p].pc = "saveAssistant"
    /\ DoSaveMessage(Message(h[p].userId, h[p].sessionId, "assistant",
                             h[p].ai.type, h[p].ai.message), out)
    /\ h' = [h EXCEPT ![p] =
                IF out = "insertFails" THEN Failed([@ EXCEPT !.writes = @ + 1])
                ELSE [@ EXCEPT !.pc = "done", !.status = 200, !.writes = @ + 1,
                               !.assistantIdx = Len(messages) + 1]]
    /\ UNCHANGED now

InitIdle == h = [p \in Procs |-> IdleChat]

\* the steps of the processes given, for the requests of the users given and
\* with the outcomes given for the calls of saveMessage
ChatStep(procs, requesters, saveOuts) ==
    \/ \E p \in procs, userId \in requesters : ChatAuth(p, userId)
    \/ \E p \in procs, body \in {"ok", "missing", "invalid"}, s \in SessionIds :
          ChatParse(p, body, s)
    \/ \E p \in procs, out \in {"ok", "fails"} : ChatFindSession(p, out)
    \/ \E p \in procs, out \in {"ok", "fails"} : ChatWriteSession(p, out)
    \/ \E p \in procs, out \in {"ok", "fails"} : ChatReadSession(p, out)
    \/ \E p \in procs, out \in {"ok", "fails"} : ChatReadDay(p, out)
    \/ \E p \in procs, out \in {"ok", "fails"} : ChatReadTranscript(p, out)
    \/ \E p \in procs : ChatSummarize(p)
    \/ \E p \in procs, out \in {"ok", "fails"} : ChatSaveSummary(p, out)
    \/ \E p \in procs, out \in saveOuts : ChatSaveUser(p, out)
    \/ \E p \in procs, out \in {"ok", "fails"} : ChatLoadContext(p, out)
    \/ \E p \in procs, resp \in ModelResponses(FirstReply) : ChatModel1(p, resp)
    \/ \E p \in procs, success \in BOOLEAN : ChatExecuteTool(p, success)
    \/ \E p \in procs, resp \in ModelResponses(SecondReply) : ChatModel2(p, resp)
    \/ \E p \in procs, out \in saveOuts : ChatSaveAssistant(p, out)

----------------------------------------------------------------------------
(* The other endpoints: streaming chat, recipe generation, tools, ingredient *)
(* detection and user sync, one request at a time                            *)

\* endpoints that check a required field of the body: message, ingredients,
\* tool and image
GatedEndpoints == {"stream", "generate", "tools", "detect"}
Endpoints == GatedEndpoints \cup {"sync"}

\* the first step of each handler once the request is let through
FirstStep(endpoint) ==
    CASE endpoint = "stream" -> "workflow"
      [] endpoint = "generate" -> "generateModel"
      [] endpoint = "tools" -> "executeTool"
      [] endpoint = "detect" -> "detectModel"
      [] endpoint = "sync" -> "syncUser"

IdleRequest ==
    [endpoint |-> "", pc |-> "idle", userId |-> "", sessionId |-> "", status |-> 0,
     reply |-> "", writes |-> 0, toolCalls |-> 0, modelCalls |-> 0]

InitRequest == rq = IdleRequest

\* const { userId } = await auth() of every handler
RequestAuth(endpoint, userId) ==
    /\ rq.pc = "idle"
    /\ rq' = [rq EXCEPT !.endpoint = endpoint, !.userId = userId,
                        !.pc = AfterAuth(userId).pc,
                        !.status = AfterAuth(userId).status]
    /\ UNCHANGED <<messages, sessions, now, users>>

\* the body read and the check of the required field; the user sync reads the
\* body and checks nothing
RequestParse(body, sessionId) ==
    /\ rq.pc = "parse"
    /\ <<rq.userId, sessionId>> \in Keys
    /\ rq' = IF rq.endpoint \in GatedEndpoints \/ body = "invalid"
             THEN [rq EXCEPT !.pc = AfterParse(body, FirstStep(rq.endpoint)).pc,
                             !.status = AfterParse(body, FirstStep(rq.endpoint)).status,
                             !.sessionId = sessionId]
             ELSE [rq EXCEPT !.pc = FirstStep(rq.endpoint), !.sessionId = sessionId]
    /\ UNCHANGED <<messages, sessions, now, users>>

\* the content of the last of state.messages after generateResponse: the
\* model's text, which may be empty, or still the user's message when the
\* call failed
LastWorkflowMessage(resp) ==
    CASE resp = "text" -> "workflow reply"
      [] resp = "empty" -> ""
      [] resp = "throws" -> "user text"

\* POST /api/chat/stream: the workflow up to generateResponse.  The nodes
\* before it only read and swallow their failures
StreamWorkflow(resp) ==
    /\ rq.pc = "workflow"
    /\ rq' = [rq EXCEPT !.pc = "saveResponse", !.status = 200,
                        !.modelCalls = @ + 1,
                        !.reply = LastWorkflowMessage(resp)]
    /\ UNCHANGED <<messages, sessions, now, users>>

\* saveResponse: the last message, if it has content, is saved as the
\* assistant's; a failed save is swallowed
StreamSaveResponse(out) ==
    /\ rq.pc = "saveResponse"
    /\ IF rq.reply # ""
       THEN /\ DoSaveMessage(Message(rq.userId, rq.sessionId, "assistant", "general",
                                     rq.reply), out)
            /\ rq' = [rq EXCEPT !.pc = "done", !.writes = @ + 1]
       ELSE /\ out = "ok"
            /\ rq' = [rq EXCEPT !.pc = "done"]
            /\ UNCHANGED <<messages, sessions>>
    /\ UNCHANGED <<now, users>>

\* POST /api/generate-recipes: the model call and the parse with its fallback
GenerateModel(resp) ==
    /\ rq.pc = "generateModel"
    /\ rq' = IF resp = "throws"
             THEN [rq EXCEPT !.pc = "done", !.status = 500, !.modelCalls = @ + 1]
             ELSE [rq EXCEPT !.pc = "storeRecipes", !.modelCalls = @ + 1,
                             !.reply = IF resp = "json" THEN "recipes"
                                       ELSE "Simple Stir Fry"]
    /\ UNCHANGED <<messages, sessions, now, users>>

\* RecipeService.storeRecipeSession, whose failure is logged and passed over
GenerateStore(out) ==
    /\ rq.pc = "storeRecipes"
    /\ rq' = [rq EXCEPT !.pc = "done", !.status = 200, !.writes = @ + 1]
    /\ UNCHANGED <<messages, sessions, now, users>>

\* POST /api/tools: ToolService.executeTool and its envelope as the answer
ToolsExecute(tool, success) ==
    /\ rq.pc = "executeTool"
    /\ success \in ToolSuccesses(rq.userId, tool, ParamChoices)
    /\ rq' = [rq EXCEPT !.pc = "done", !.status = 200, !.toolCalls = @ + 1,
                        !.reply = IF success THEN "success" ELSE "failure"]
    /\ UNCHANGED <<messages, sessions, now, users>>

\* ingredient detection: the model call inside the stream, with the parse
\* fallback and the error event
DetectModel(resp) ==
    /\ rq.pc = "detectModel"
    /\ rq' = [rq EXCEPT !.pc = "done", !.status = 200, !.modelCalls = @ + 1,
                        !.reply = IF resp = "throws" THEN "Failed to process image"
                                  ELSE IF resp = "json" THEN "ingredients"
                                  ELSE "mixed ingredients"]
    /\ UNCHANGED <<messages, sessions, now, users>>

\* POST /api/users/sync: userService.createOrUpdateUser
RequestSyncUser(email, out) ==
    /\ rq.pc = "syncUser"
    /\ users' = IF out = "ok" THEN CreateOrUpdateUser(users, rq.userId, email)
                ELSE users
    /\ rq' = [rq EXCEPT !.pc = "done", !.status = IF out = "ok" THEN 200 ELSE 500,
                        !.writes = @ + 1]
    /\ UNCHANGED <<messages, sessions, now>>

RequestStep ==
    \/ \E endpoint \in Endpoints, userId \in Users \cup {""} :
          RequestAuth(endpoint, userId)
    \/ \E body \in {"ok", "missing", "invalid"}, s \in SessionIds : RequestParse(body, s)
    \/ \E resp \in {"text", "empty", "throws"} : StreamWorkflow(resp)
    \/ \E out \in {"ok", "insertFails", "countFails"} : StreamSaveResponse(out)
    \/ \E resp \in {"json", "nojson", "badjson", "throws"} : GenerateModel(resp)
    \/ \E out \in {"ok", "fails"} : GenerateStore(out)
    \/ \E tool \in ToolNames \cup {"frobnicate"}, success \in BOOLEAN :
          ToolsExecute(tool, success)
    \/ \E resp \in {"json", "nojson", "badjson", "throws"} : DetectModel(resp)
    \/ \E email \in {"a@x", "b@x"}, out \in {"ok", "fails"} : RequestSyncUser(email, out)

----------------------------------------------------------------------------
(* The recipe store: RecipeService.storeRecipeSession over the             *)
(* "recipe_sessions" and the "recipes" collection                          *)

MaxStores == 2              \* storeRecipeSession calls in one behaviour
DefaultIngredientLimit == 10

StoreFailed == "Failed to store recipe session"

NoRecipeCall ==
    [op |-> "none", userId |-> "", out |-> "", threw |-> FALSE, error |-> "",
     stored |-> 0, limit |-> 0, data |-> <<>>, count |-> 0]

IdleRecipes == [recipeSessions |-> <<>>, recipes |-> <<>>, call |-> NoRecipeCall]

InitRecipes == rc = IdleRecipes

\* the source-ingredient lists of the generation requests tried: the same
\* name in different case and with different quantities, within one list and
\* across lists
SourceIngredientLists ==
    {<<[name |-> "egg", quantity |-> "1 cup"]>>,
     <<[name |-> "Egg", quantity |-> "2 medium"], [name |-> "rice", quantity |-> "1 cup"]>>,
     <<[name |-> "rice", quantity |-> "2 medium"], [name |-> "egg", quantity |-> "2 medium"],
       [name |-> "Egg", quantity |-> "1 cup"]>>}

\* the basic and the advanced recipes a generation hands over
BasicRecipeLists == {<<>>, <<[name |-> "Model Recipe", ingredients |-> <<>>]>>}
AdvancedRecipeLists == {<<>>, <<[name |-> "Model Feast", ingredients |-> <<>>]>>}

\* (mutant) recipes that carry no source ingredients
processRecipesBare(recipes, category, userId, sourceIngredients, t) ==
    [i \in 1..Len(recipes) |->
        [name |-> recipes[i].name, ingredients |-> recipes[i].ingredients,
         userId |-> userId, category |-> category,
         sourceIngredients |-> <<>>, createdAt |-> t]]

\* { ...recipe, userId, category, sourceIngredients, createdAt, updatedAt }
processRecipes(recipes, category, userId, sourceIngredients, t) ==
    [i \in 1..Len(recipes) |->
        [name |-> recipes[i].name, ingredients |-> recipes[i].ingredients,
         userId |-> userId, category |-> category,
         sourceIngredients |-> sourceIngredients, createdAt |-> t]]

\* RecipeService.storeRecipeSession at time t.  out: "ok"; "connectFails"
\* (getCollection throws); "sessionFails" (the insertOne throws);
\* "recipesFail" (the insertMany throws after writing the first `written`
\* documents, as an ordered insertMany does).  Every exception reaches the
\* caller as the one generic error
storeRecipeSession(coll, userId, sessionId, sourceIngredients, basicRecipes, advancedRecipes, t, out, written) ==
    LET processedBasic ==
            processRecipes(basicRecipes, "basic", userId, sourceIngredients, t)
        processedAdvanced ==
            processRecipes(advancedRecipes, "advanced", userId, sourceIngredients, t)
        allRecipes == processedBasic \o processedAdvanced
        recipeSession ==
            [userId |-> userId, sessionId |-> sessionId,
             sourceIngredients |-> sourceIngredients,
             basicRecipes |-> processedBasic,
             advancedRecipes |-> processedAdvanced, createdAt |-> t]
        sessionWritten == out \in {"ok", "recipesFail"}
        recipesFail == out = "recipesFail" /\ allRecipes # <<>>
        inserted == IF out = "ok" THEN allRecipes
                    ELSE IF recipesFail THEN Take(allRecipes, written)
                    ELSE <<>>
        threw == out \in {"connectFails", "sessionFails"} \/ recipesFail
    IN  [recipeSessions |-> IF sessionWritten
                            THEN Append(coll.recipeSessions, recipeSession)
                            ELSE coll.recipeSessions,
         recipes |-> coll.recipes \o inserted,
         call |-> [NoRecipeCall EXCEPT
                     !.op = "store", !.userId = userId, !.out = out,
                     !.threw = threw,
                     !.error = IF threw THEN StoreFailed ELSE "",
                     !.stored = IF sessionWritten
                                THEN Len(coll.recipeSessions) + 1 ELSE 0]]

----------------------------------------------------------------------------
(* The streaming endpoints in detail: the workflow of POST /api/chat/stream, *)
(* node by node, the ingredient detection, and the events each one sends;   *)
(* and the recipe generation with the response it builds                   *)

\* the user messages tried, and the characters of every string that is
\* searched or searched for
UserTexts ==
    {"Yesterday", "EARLIER", "beforehand", "my Previous", "tonight", "yester day",
     "befor"}

Chars(s) ==
    CASE s = "Yesterday" -> <<"Y", "e", "s", "t", "e", "r", "d", "a", "y">>
      [] s = "EARLIER" -> <<"E", "A", "R", "L", "I", "E", "R">>
      [] s = "beforehand" -> <<"b", "e", "f", "o", "r", "e", "h", "a", "n", "d">>
      [] s = "my Previous" -> <<"m", "y", " ", "P", "r", "e", "v", "i", "o", "u", "s">>
      [] s = "tonight" -> <<"t", "o", "n", "i", "g", "h", "t">>
      [] s = "yester day" -> <<"y", "e", "s", "t", "e", "r", " ", "d", "a", "y">>
      [] s = "befor" -> <<"b", "e", "f", "o", "r">>
      [] s = "yesterday" -> <<"y", "e", "s", "t", "e", "r", "d", "a", "y">>
      [] s = "earlier" -> <<"e", "a", "r", "l", "i", "e", "r">>
      [] s = "before" -> <<"b", "e", "f", "o", "r", "e">>
      [] s = "previous" -> <<"p", "r", "e", "v", "i", "o", "u", "s">>
      [] s = "egg" -> <<"e", "g", "g">>
      [] s = "Egg" -> <<"E", "g", "g">>
      [] s = "rice" -> <<"r", "i", "c", "e">>
      [] OTHER -> <<>>

\* String.prototype.toLowerCase, character by character
LowerChar(c) ==
    CASE c = "Y" -> "y" [] c = "E" -> "e" [] c = "A" -> "a" [] c = "R" -> "r"
      [] c = "L" -> "l" [] c = "I" -> "i" [] c = "P" -> "p"
      [] OTHER -> c

ToLowerCase(cs) == [i \in 1..Len(cs) |-> LowerChar(cs[i])]

\* String.prototype.includes
Includes(cs, sub) ==
    \E i \in 0..(Len(cs) - Len(sub)) : SubSeq(cs, i + 1, i + Len(sub)) = sub

\* (mutant) the same test without toLowerCase
NeedsOlderContextCased(userMessage) ==
    \/ Includes(Chars(userMessage), Chars("yesterday"))
    \/ Includes(Chars(userMessage), Chars("earlier"))
    \/ Includes(Chars(userMessage), Chars("before"))
    \/ Includes(Chars(userMessage), Chars("previous"))

\* checkContextNeed: the flag computed from state.messages[0].content
NeedsOlderContext(userMessage) ==
    \/ Includes(ToLowerCase(Chars(userMessage)), Chars("yesterday"))
    \/ Includes(ToLowerCase(Chars(userMessage)), Chars("earlier"))
    \/ Includes(ToLowerCase(Chars(userMessage)), Chars("before"))
    \/ Includes(ToLowerCase(Chars(userMessage)), Chars("previous"))

OlderContextLimit == 20
Apology == "I apologize, but I couldn't generate a response."
WorkflowReply == "workflow reply"

HumanMessage(content) == [role |-> "human", content |-> content]
AIMessage(content) == [role |-> "ai", content |-> content]

\* the WorkflowState executeWorkflow starts from
InitialState(userId, sessionId, message) ==
    [messages |-> <<HumanMessage(message)>>, userId |-> userId,
     sessionId |-> sessionId, currentStep |-> "Starting workflow", progress |-> 0,
     preferences |-> "unset", context |-> <<>>, needsOlderContext |-> FALSE,
     error |-> ""]

NoState == InitialState("", "", "")

\* one event of the stream: step and progress, done, and the payload keys
\* that JSON.stringify writes (a key whose value is undefined is left out)
Event(step, progress, done, keys) ==
    [step |-> step, progress |-> progress, done |-> done, keys |-> keys]

Progress(step, progress) == Event(step, progress, FALSE, {})

\* (mutant) an edge from checkContextNeed that loads older context always
ShouldLoadOlderContextAlways(state) == "loadOlder"

\* shouldLoadOlderContext, the condition of the one conditional edge
ShouldLoadOlderContext(state) ==
    IF state.needsOlderContext THEN "loadOlder" ELSE "generate"

\* (mutant) a graph in which a failed model call ends the run
NextNodeAborting(node, state) ==
    CASE node = "START" -> "loadPreferences"
      [] node = "loadPreferences" -> "loadContext"
      [] node = "loadContext" -> "checkContextNeed"
      [] node = "checkContextNeed" ->
            IF ShouldLoadOlderContext(state) = "loadOlder" THEN "loadOlderContext"
            ELSE "generateResponse"
      [] node = "loadOlderContext" -> "generateResponse"
      [] node = "generateResponse" -> IF state.error # "" THEN "END" ELSE "saveResponse"
      [] node = "saveResponse" -> "END"

\* the edges of createWorkflow: the node after each node
NextNode(node, state) ==
    CASE node = "START" -> "loadPreferences"
      [] node = "loadPreferences" -> "loadContext"
      [] node = "loadContext" -> "checkContextNeed"
      [] node = "checkContextNeed" ->
            IF ShouldLoadOlderContext(state) = "loadOlder" THEN "loadOlderContext"
            ELSE "generateResponse"
      [] node = "loadOlderContext" -> "generateResponse"
      [] node = "generateResponse" -> "saveResponse"
      [] node = "saveResponse" -> "END"

\* POST /api/generate-recipes in detail.  The ingredients of the request
MaxIngredients == 2

DetectedIngredients ==
    [name : {"egg", "rice"}, quantity : {"2 medium", "1 cup"}]

IngredientLists ==
    UNION {[1..n -> DetectedIngredients] : n \in 0..MaxIngredients}

NoBody == [kind |-> "none", basicRecipes |-> <<>>, advancedRecipes |-> <<>>]

\* the parsed answer of the model when it follows the prompt
ModelRecipes(ingredients) ==
    [kind |-> "recipes",
     basicRecipes |-> <<[name |-> "Model Recipe", ingredients |-> <<>>]>>,
     advancedRecipes |-> <<[name |-> "Model Feast", ingredients |-> <<>>]>>]

\* (mutant) a fallback that lists the ingredients as not available
FallbackRecipesUnavailable(ingredients) ==
    [kind |-> "recipes",
     basicRecipes |->
        <<[name |-> "Simple Stir Fry",
           ingredients |-> [i \in 1..Len(ingredients) |->
                               [item |-> ingredients[i].name,
                                amount |-> ingredients[i].quantity,
                                available |-> FALSE]]]>>,
     advancedRecipes |-> <<>>]

\* the fallback response when the model's text has no JSON that parses
FallbackRecipes(ingredients) ==
    [kind |-> "recipes",
     basicRecipes |->
        <<[name |-> "Simple Stir Fry",
           ingredients |-> [i \in 1..Len(ingredients) |->
                               [item |-> ingredients[i].name,
                                amount |-> ingredients[i].quantity,
                                available |-> TRUE]]]>>,
     advancedRecipes |-> <<>>]

\* text.match, JSON.parse and the fallback.  resp: the model's text is a JSON
\* object of recipes, a JSON object of something else, has no braces, or has
\* braces that do not parse
ParsedRecipes(resp, ingredients) ==
    CASE resp = "json" -> ModelRecipes(ingredients)
      [] resp = "jsonOther" -> [NoBody EXCEPT !.kind = "other"]
      [] OTHER -> FallbackRecipes(ingredients)

IdleStream ==
    [endpoint |-> "", pc |-> "idle", userId |-> "", status |-> 0,
     state |-> NoState, visited |-> <<>>, events |-> <<>>, closed |-> FALSE,
     reporter |-> FALSE, llmCallbacks |-> FALSE, failed |-> {}, reply |-> "", result |-> "", savedIdx |-> 0,
     ingredients |-> <<>>, body |-> NoBody]

InitStream == sse = IdleStream

\* POST of both streaming routes: const { userId } = await auth().  The
\* reporter flags say what the run hands its callbacks: whether the nodes
\* receive a progress reporter as their second argument, and whether the
\* model call runs the handleLLMStart and handleLLMEnd callbacks
StreamAuth(endpoint, userId, reporter, llmCallbacks) ==
    /\ sse.pc = "idle"
    /\ sse' = [sse EXCEPT !.endpoint = endpoint, !.userId = userId,
                          !.reporter = reporter /\ endpoint = "stream",
                          !.llmCallbacks = llmCallbacks /\ endpoint = "stream",
                          !.pc = AfterAuth(userId).pc,
                          !.status = AfterAuth(userId).status]
    /\ UNCHANGED <<messages, sessions, now>>

\* the body read, the check of message or image, and the Response that
\* carries the stream; executeWorkflow builds the initial state
StreamParse(body, sessionId, message) ==
    /\ sse.pc = "parse"
    /\ sse.endpoint \in {"stream", "detect"}
    /\ <<sse.userId, sessionId>> \in Keys
    /\ LET first == IF sse.endpoint = "stream" THEN "loadPreferences"
                    ELSE "processImage"
           after == AfterParse(body, first)
       IN sse' = IF after.pc = "done"
                 THEN [sse EXCEPT !.pc = "done", !.status = after.status]
                 ELSE [sse EXCEPT !.pc = first, !.status = 200,
                          !.state = IF sse.endpoint = "stream"
                                    THEN InitialState(sse.userId, sessionId, message)
                                    ELSE NoState]
    /\ UNCHANGED <<messages, sessions, now>>

\* onProgress?.(step, progress) of a node: an event when the node was handed
\* the reporter, nothing otherwise
Report(events, reporter, step, progress) ==
    IF reporter THEN Append(events, Progress(step, progress)) ELSE events

\* the state a node returns, merged into the state it was given.
\* got is what the collaborator answered, or "throws"
LoadPreferencesNode(state, got) ==
    IF got = "throws"
    THEN [state EXCEPT !.currentStep = "Preferences load failed", !.progress = 20]
    ELSE [state EXCEPT !.preferences = got, !.currentStep = "Preferences loaded",
                       !.progress = 20]

LoadContextNode(state, got, recentMessages) ==
    IF got = "throws"
    THEN [state EXCEPT !.currentStep = "Context load failed", !.progress = 40]
    ELSE [state EXCEPT !.context = recentMessages, !.currentStep = "Context loaded",
                       !.progress = 40]

CheckContextNeedNode(state) ==
    [state EXCEPT !.needsOlderContext = NeedsOlderContext(state.messages[1].content),
                  !.currentStep = "Context analysis complete", !.progress = 60]

LoadOlderContextNode(state, got, olderMessages) ==
    IF got = "throws"
    THEN [state EXCEPT !.currentStep = "Older context load failed", !.progress = 70]
    ELSE [state EXCEPT !.context = olderMessages \o state.context,
                       !.currentStep = "Extended context loaded", !.progress = 70]

GenerateResponseNode(state, resp) ==
    IF resp = "throws"
    THEN [state EXCEPT !.error = "Failed to generate response",
                       !.currentStep = "Response generation failed", !.progress = 90]
    ELSE [state EXCEPT !.messages = Append(@, AIMessage(IF resp = "text"
                                                        THEN WorkflowReply ELSE "")),
                       !.currentStep = "Response generated", !.progress = 90]

SaveResponseNode(state, out) ==
    IF out = "insertFails"
    THEN [state EXCEPT !.currentStep = "Save failed", !.progress = 100]
    ELSE [state EXCEPT !.currentStep = "Complete", !.progress = 100]

\* a node runs: it is entered in the run's record, with its collaborator when
\* that one failed, it reports, and the graph moves along the node's edge
Ran(node, failing, events, state) ==
    [sse EXCEPT !.visited = Append(@, node), !.events = events, !.state = state,
                !.failed = @ \cup failing, !.pc = NextNode(node, state)]

\* loadPreferences.  mem0Service.getUserPreferences answers the defaults, the
\* stored preferences, or null after an error of its own; it does not throw
LoadPreferences(got) ==
    /\ sse.pc = "loadPreferences"
    /\ sse' = Ran("loadPreferences", IF got = "null" THEN {"preferences"} ELSE {},
                  Report(sse.events, sse.reporter, "Loading user preferences...", 10),
                  LoadPreferencesNode(sse.state, got))
    /\ UNCHANGED <<messages, sessions, now>>

\* loadContext.  chatService.getRecentMessages(userId, sessionId, 2) answers
\* the empty list after a storage error; it does not throw
LoadContext(out) ==
    /\ sse.pc = "loadContext"
    /\ sse' = Ran("loadContext", IF out = "fails" THEN {"context"} ELSE {},
                  Report(sse.events, sse.reporter, "Loading recent conversation...", 30),
                  LoadContextNode(sse.state, out,
                      IF out = "ok"
                      THEN RecentMessages(messages, sse.state.userId,
                                          sse.state.sessionId, RecentHours, now)
                      ELSE <<>>))
    /\ UNCHANGED <<messages, sessions, now>>

CheckContextNeed ==
    /\ sse.pc = "checkContextNeed"
    /\ sse' = Ran("checkContextNeed", {},
                  Report(sse.events, sse.reporter, "Analyzing context requirements...", 50),
                  CheckContextNeedNode(sse.state))
    /\ UNCHANGED <<messages, sessions, now>>

\* loadOlderContext.  chatService.getOlderMessages(userId, sessionId, two
\* hours ago, 20), which likewise answers the empty list after an error
LoadOlderContext(out) ==
    /\ sse.pc = "loadOlderContext"
    /\ sse' = Ran("loadOlderContext", IF out = "fails" THEN {"olderContext"} ELSE {},
                  Report(sse.events, sse.reporter, "Fetching older conversation history...", 65),
                  LoadOlderContextNode(sse.state, out,
                      IF out = "ok"
                      THEN OlderMessages(messages, sse.state.userId, sse.state.sessionId,
                                         now - RecentHours, OlderContextLimit)
                      ELSE <<>>))
    /\ UNCHANGED <<messages, sessions, now>>

\* the events of the model call: the node's own report, then those of the
\* handleLLMStart callback and, when the call returns, of handleLLMEnd
ModelEvents(events, reporter, llmCallbacks, resp) ==
    LET reported == Report(events, reporter, "Generating personalized response...", 80)
        started == Report(reported, llmCallbacks, "Generating AI response...", 80)
    IN IF resp = "throws" THEN started
       ELSE Report(started, llmCallbacks, "Finalizing response...", 95)

\* generateResponse.  resp: the model answers a text, an empty text, or the
\* call throws
GenerateResponse(resp) ==
    /\ sse.pc = "generateResponse"
    /\ sse' = [Ran("generateResponse", IF resp = "throws" THEN {"model"} ELSE {},
                   ModelEvents(sse.events, sse.reporter, sse.llmCallbacks, resp),
                   GenerateResponseNode(sse.state, resp))
                 EXCEPT !.reply = IF resp = "text" THEN WorkflowReply ELSE ""]
    /\ UNCHANGED <<messages, sessions, now>>

\* saveResponse: the last of state.messages, if it has content, is saved as
\* an assistant message of type general
SaveResponse(out) ==
    /\ sse.pc = "saveResponse"
    /\ LET aiMessage == sse.state.messages[Len(sse.state.messages)]
           saved == aiMessage.content # "" /\ out # "insertFails"
           ran == Ran("saveResponse",
                      IF aiMessage.content # "" /\ out # "ok" THEN {"save"} ELSE {},
                      Report(sse.events, sse.reporter, "Saving conversation...", 95),
                      SaveResponseNode(sse.state,
                                       IF aiMessage.content # "" THEN out ELSE "ok"))
       IN IF aiMessage.content # ""
          THEN /\ DoSaveMessage(Message(sse.state.userId, sse.state.sessionId,
                                        "assistant", "general", aiMessage.content), out)
               /\ sse' = [ran EXCEPT !.savedIdx = IF saved THEN Len(messages) + 1
                                                  ELSE 0]
          ELSE /\ out = "ok"
               /\ sse' = ran
               /\ UNCHANGED <<messages, sessions>>
    /\ UNCHANGED now

\* what executeWorkflow returns: the content of the last message of the
\* final state, or the apology when that is empty
WorkflowResult(state) ==
    LET content == state.messages[Len(state.messages)].content
    IN IF content # "" THEN content ELSE Apology

\* the graph has ended: executeWorkflow returns, and the route's then sends
\* the final event and closes the stream
StreamComplete ==
    /\ sse.pc = "END"
    /\ sse' = [sse EXCEPT !.pc = "done", !.closed = TRUE,
                  !.result = WorkflowResult(sse.state),
                  !.events = Append(@, Event("Complete", 100, TRUE, {"response"}))]
    /\ UNCHANGED <<messages, sessions, now>>

\* the keys JSON.stringify writes for the final event of the detection: the
\* ingredients of the parsed answer, when it has any
DetectedKeys(resp) == IF resp = "jsonOther" THEN {} ELSE {"ingredients"}

\* processImage up to the model call.  out: image.arrayBuffer() answers or
\* rejects
ProcessImage(out) ==
    /\ sse.pc = "processImage"
    /\ sse' = IF out = "ok"
              THEN [sse EXCEPT !.pc = "detectModel",
                       !.events = @ \o <<Progress("Preparing image for analysis...", 10),
                                         Progress("Uploading to AI service...", 30),
                                         Progress("Analyzing ingredients with AI...", 60),
                                         Progress("Processing AI response...", 80)>>]
              ELSE [sse EXCEPT !.pc = "done", !.closed = TRUE,
                       !.result = "Failed to process image",
                       !.events = @ \o <<Progress("Preparing image for analysis...", 10),
                                         Event("Error", 100, TRUE, {"error"})>>]
    /\ UNCHANGED <<messages, sessions, now>>

\* the model call of the detection and the parse of its text.  resp: a JSON
\* object with ingredients, a JSON object without, a text with no braces, a
\* text whose braces do not parse, or the call throws
DetectIngredients(resp) ==
    /\ sse.pc = "detectModel"
    /\ sse' = IF resp = "throws"
              THEN [sse EXCEPT !.pc = "done", !.closed = TRUE, !.failed = {"model"},
                       !.reply = resp,
                       !.result = "Failed to process image",
                       !.events = Append(@, Event("Error", 100, TRUE, {"error"}))]
              ELSE [sse EXCEPT !.pc = "done", !.closed = TRUE, !.reply = resp,
                       !.result = CASE resp = "json" -> "ingredients"
                                    [] resp = "jsonOther" -> "undefined"
                                    [] OTHER -> "mixed ingredients",
                       !.events = @ \o <<Progress("Finalizing results...", 95),
                                         Event("Complete", 100, TRUE, DetectedKeys(resp))>>]
    /\ UNCHANGED <<messages, sessions, now>>

\* the body read and the check of ingredients
RecipesParse(body, ingredients) ==
    /\ sse.pc = "parse"
    /\ sse.endpoint = "generate"
    /\ sse' = [sse EXCEPT !.pc = AfterParse(body, "generateModel").pc,
                          !.status = AfterParse(body, "generateModel").status,
                          !.ingredients = IF body = "ok" THEN ingredients ELSE <<>>]
    /\ UNCHANGED <<messages, sessions, now>>

\* the model call; a call that throws is answered from the handler's catch
RecipesModel(resp) ==
    /\ sse.pc = "generateModel"
    /\ sse' = IF resp = "throws"
              THEN [sse EXCEPT !.pc = "done", !.status = 500, !.failed = {"model"},
                               !.reply = resp,
                               !.result = "Failed to generate recipes",
                               !.body = [NoBody EXCEPT !.kind = "error"]]
              ELSE [sse EXCEPT !.pc = "storeRecipes", !.reply = resp,
                               !.body = ParsedRecipes(resp, sse.ingredients)]
    /\ UNCHANGED <<messages, sessions, now>>

\* RecipeService.storeRecipeSession under a fresh session id, whose failure
\* is logged and passed over, and the answer
RecipesStore(out, written) ==
    /\ sse.pc = "storeRecipes"
    /\ rc' = storeRecipeSession(rc, sse.userId, Len(rc.recipeSessions) + 1,
                                sse.ingredients, sse.body.basicRecipes,
                                sse.body.advancedRecipes, now, out, written)
    /\ sse' = [sse EXCEPT !.pc = "done", !.status = 200,
                          !.failed = IF rc'.call.threw THEN {"store"} ELSE @]
    /\ UNCHANGED <<messages, sessions, now>>

StreamStep(requesters) ==
    \/ \E endpoint \in {"stream", "detect", "generate"}, userId \in requesters,
          reporter \in BOOLEAN, llmCallbacks \in BOOLEAN :
          StreamAuth(endpoint, userId, reporter, llmCallbacks) /\ UNCHANGED rc
    \/ \E body \in {"ok", "missing", "invalid"}, s \in SessionIds, message \in UserTexts :
          StreamParse(body, s, message) /\ UNCHANGED rc
    \/ \E got \in {"defaults", "stored", "null"} : LoadPreferences(got) /\ UNCHANGED rc
    \/ \E out \in {"ok", "fails"} : LoadContext(out) /\ UNCHANGED rc
    \/ CheckContextNeed /\ UNCHANGED rc
    \/ \E out \in {"ok", "fails"} : LoadOlderContext(out) /\ UNCHANGED rc
    \/ \E resp \in {"text", "empty", "throws"} : GenerateResponse(resp) /\ UNCHANGED rc
    \/ \E out \in {"ok", "insertFails", "countFails"} : SaveResponse(out) /\ UNCHANGED rc
    \/ StreamComplete /\ UNCHANGED rc
    \/ \E out \in {"ok", "fails"} : ProcessImage(out) /\ UNCHANGED rc
    \/ \E resp \in {"json", "jsonOther", "nojson", "badjson", "throws"} :
          DetectIngredients(resp) /\ UNCHANGED rc
    \/ \E body \in {"ok", "missing", "invalid"}, ingredients \in IngredientLists :
          RecipesParse(body, ingredients) /\ UNCHANGED rc
    \/ \E resp \in {"json", "jsonOther", "nojson", "badjson", "throws"} :
          RecipesModel(resp) /\ UNCHANGED rc
    \/ \E out \in {"ok", "connectFails", "sessionFails", "recipesFail"}, written \in 0..1 :
          RecipesStore(out, written)

----------------------------------------------------------------------------
(* The cached database connection: connectToDatabase and its callers *)

DbCallers == {"c1", "c2", "c3"}
MaxAttempts == 3
MaxDisconnects == 1

\* a caller of connectToDatabase: where it is, the promise it awaits, the
\* handle it was given; and what was the case when it arrived: the attempts
\* that had failed, and whether one had succeeded with no disconnect since
IdleCaller ==
    [pc |-> "idle", awaited |-> 0, handle |-> 0, sawRejected |-> {},
     sawConnected |-> FALSE]

\* let cached = { conn: null, promise: null }, promises and handles named by
\* the number of the attempt; attempts holds the state of each
\* mongoose.connect(...).then(...).catch(...) promise
InitDb ==
    db = [conn |-> 0, promise |-> 0, attempts |-> <<>>, connected |-> FALSE,
          disconnecting |-> FALSE, disconnects |-> 0,
          callers |-> [c \in DbCallers |-> IdleCaller]]

Rejected(attempts) == {a \in 1..Len(attempts) : attempts[a] = "rejected"}

\* cached.promise after the catch handler of attempt a has run
AfterRejection(promise, a) == 0

\* connectToDatabase up to its await: the cached handle is returned, or the
\* cached promise is awaited, a new attempt being started when there is none
Connect(c) ==
    /\ db.callers[c].pc = "idle"
    /\ LET arrived == [db.callers[c] EXCEPT !.sawRejected = Rejected(db.attempts),
                                            !.sawConnected = db.connected]
       IN IF db.conn # 0
          THEN db' = [db EXCEPT !.callers[c] =
                         [arrived EXCEPT !.pc = "returned", !.handle = db.conn]]
          ELSE IF db.promise # 0
          THEN db' = [db EXCEPT !.callers[c] =
                         [arrived EXCEPT !.pc = "awaiting", !.awaited = db.promise]]
          ELSE /\ Len(db.attempts) < MaxAttempts
               /\ db' = [db EXCEPT !.attempts = Append(@, "pending"),
                                   !.promise = Len(db.attempts) + 1,
                                   !.callers[c] =
                                      [arrived EXCEPT !.pc = "awaiting",
                                                      !.awaited = Len(db.attempts) + 1]]

\* mongoose.connect of attempt a settles and the attempt's handlers run: then
\* passes the handle on, catch clears cached.promise and rethrows
Settle(a, ok) ==
    /\ a \in 1..Len(db.attempts)
    /\ db.attempts[a] = "pending"
    /\ db' = IF ok
             THEN [db EXCEPT !.attempts[a] = "resolved", !.connected = TRUE]
             ELSE [db EXCEPT !.attempts[a] = "rejected",
                             !.promise = AfterRejection(db.promise, a)]

\* the caller's await answers: cached.conn is set and returned, or the catch
\* clears cached.promise and rethrows
Resume(c) ==
    /\ db.callers[c].pc = "awaiting"
    /\ db.attempts[db.callers[c].awaited] # "pending"
    /\ db' = IF db.attempts[db.callers[c].awaited] = "resolved"
             THEN [db EXCEPT !.conn = db.callers[c].awaited,
                             !.callers[c].pc = "returned",
                             !.callers[c].handle = db.callers[c].awaited]
             ELSE [db EXCEPT !.promise = 0, !.callers[c].pc = "threw"]

\* disconnectDatabase up to its await: nothing happens without a handle
Disconnect ==
    /\ db.conn # 0
    /\ ~db.disconnecting
    /\ db.disconnects < MaxDisconnects
    /\ db' = [db EXCEPT !.disconnecting = TRUE, !.connected = FALSE,
                        !.disconnects = @ + 1]

\* disconnect() has answered: both cache fields are cleared
Disconnected ==
    /\ db.disconnecting
    /\ db' = [db EXCEPT !.disconnecting = FALSE, !.conn = 0, !.promise = 0]

DbStep ==
    \/ \E c \in DbCallers : Connect(c)
    \/ \E a \in 1..MaxAttempts, ok \in BOOLEAN : Settle(a, ok)
    \/ \E c \in DbCallers : Resume(c)
    \/ Disconnect
    \/ Disconnected

----------------------------------------------------------------------------
(* The preference store: Mem0Service.saveUserPreferences and              *)
(* getUserPreferences over the browser's localStorage                      *)

\* a key the object does not have
Absent == "absent"

\* the preference objects a caller sends: the userId, the cookingSkillLevel
\* and the maxCookingTime stand for all the fields, and any of them may be
\* missing (Partial<UserPreferences>)
PreferenceObjects ==
    [userId : Users \cup {Absent},
     cookingSkillLevel : {Absent, "beginner", "advanced"},
     maxCookingTime : {Absent, "30"}]

NoPreferences == [userId |-> Absent, cookingSkillLevel |-> Absent, maxCookingTime |-> Absent]

\* the object getUserPreferences returns when nothing is stored
DefaultPreferences(userId) ==
    [userId |-> userId, cookingSkillLevel |-> "intermediate", maxCookingTime |-> "60"]

\* { ...a, ...b }
SpreadOver(a, b) ==
    [f \in DOMAIN a |-> IF b[f] # Absent THEN b[f] ELSE a[f]]

\* the last call; a read carries the preferences of the save of the same
\* user that came right before it, if one did
NoCall == [op |-> "none", userId |-> "", preferences |-> NoPreferences, result |-> NoPreferences]

IdlePrefs(isBrowser) ==
    [isBrowser |-> isBrowser,
     localStorage |-> [u \in Users |-> NoPreferences],
     call |-> NoCall]

InitPrefs == pf = IdlePrefs(FALSE)

\* allPreferences[userId] = { ...allPreferences[userId], ...preferences, userId };
\* a setItem that throws is logged and the stored value stays
savePreferencesToLocalStorage(store, userId, preferences, setItem) ==
    IF setItem = "ok"
    THEN [store EXCEPT ![userId] =
              [SpreadOver(store[userId], preferences) EXCEPT !.userId = userId]]
    ELSE store

\* stores in localStorage in the browser, stores nothing on the server
saveUserPreferences(isBrowser, store, userId, preferences, setItem) ==
    IF isBrowser
    THEN savePreferencesToLocalStorage(store, userId, preferences, setItem)
    ELSE store

\* allPreferences?.[userId] || null, and null outside the browser
getPreferencesFromLocalStorage(isBrowser, store, userId) ==
    IF isBrowser THEN store[userId] ELSE NoPreferences

getUserPreferences(isBrowser, store, userId) ==
    LET localPrefs == getPreferencesFromLocalStorage(isBrowser, store, userId)
    IN  IF isBrowser /\ localPrefs # NoPreferences
        THEN localPrefs
        ELSE DefaultPreferences(userId)

SavePreferences(userId, preferences, setItem) ==
    pf' = [pf EXCEPT
             !.localStorage = saveUserPreferences(pf.isBrowser, pf.localStorage,
                                                  userId, preferences, setItem),
             !.call = [op |-> "save", userId |-> userId,
                       preferences |-> preferences, result |-> NoPreferences]]

GetPreferences(userId) ==
    pf' = [pf EXCEPT
             !.call = [op |-> "get", userId |-> userId,
                       preferences |-> IF pf.call.op = "save" /\ pf.call.userId = userId
                                       THEN pf.call.preferences
                                       ELSE NoPreferences,
                       result |-> getUserPreferences(pf.isBrowser, pf.localStorage,
                                                     userId)]]

PrefsStep ==
    \/ \E u \in Users, p \in PreferenceObjects, setItem \in {"ok", "throws"} :
          SavePreferences(u, p, setItem)
    \/ \E u \in Users : GetPreferences(u)

----------------------------------------------------------------------------
(* The reads of the recipe store and the recent-ingredients handler *)

\* find({ userId }).sort({ createdAt: -1 }).limit(limit): the user's
\* sessions, newest first, those of one instant in insertion order
getUserRecipeSessions(coll, userId, limit) ==
    LET n == Len(coll.recipeSessions)
        mine == SelectIdx(n, [i \in 1..n |-> coll.recipeSessions[i].userId = userId], 1)
        key == [i \in 1..n |-> coll.recipeSessions[i].createdAt]
        sorted == SortIds(Reverse(mine), key, -1)
    IN  [k \in 1..Len(Take(sorted, limit)) |-> coll.recipeSessions[sorted[k]]]

RECURSIVE FlatSourceIngredients(_)
\* recentSessions.flatMap((session) => session.sourceIngredients)
FlatSourceIngredients(recentSessions) ==
    IF recentSessions = <<>> THEN <<>>
    ELSE Head(recentSessions).sourceIngredients
            \o FlatSourceIngredients(Tail(recentSessions))

SameName(a, b) == ToLowerCase(Chars(a.name)) = ToLowerCase(Chars(b.name))

RECURSIVE UniqueIngredientsLast(_, _)
\* (mutant) the reduce keeping the last occurrence of a name
UniqueIngredientsLast(ingredients, acc) ==
    IF ingredients = <<>> THEN acc
    ELSE UniqueIngredientsLast(
            Tail(ingredients),
            Append(SelectSeq(acc, LAMBDA i : ~SameName(i, Head(ingredients))),
                   Head(ingredients)))

RECURSIVE UniqueIngredients(_, _)
\* the reduce: an ingredient is pushed unless acc already has one of its name,
\* compared in lower case
UniqueIngredients(ingredients, acc) ==
    IF ingredients = <<>> THEN acc
    ELSE UniqueIngredients(
            Tail(ingredients),
            IF \E k \in 1..Len(acc) : SameName(acc[k], Head(ingredients))
            THEN acc
            ELSE Append(acc, Head(ingredients)))

\* ToolService.getRecentIngredients.  limit = 0 stands for an omitted limit.
\* A RecipeService call that throws ends the handler with the exception
getRecentIngredients(coll, userId, limitParam, out) ==
    LET limit == IF limitParam = 0 THEN DefaultIngredientLimit ELSE limitParam
        recentSessions == getUserRecipeSessions(coll, userId, limit)
        uniqueIngredients ==
            UniqueIngredients(FlatSourceIngredients(recentSessions), <<>>)
    IN  IF out = "ok"
        THEN [NoRecipeCall EXCEPT
                !.op = "recentIngredients", !.userId = userId, !.out = out,
                !.limit = limit, !.data = Take(uniqueIngredients, limit),
                !.count = Len(uniqueIngredients)]
        ELSE [NoRecipeCall EXCEPT
                !.op = "recentIngredients", !.userId = userId, !.out = out,
                !.limit = limit, !.threw = TRUE,
                !.error = "Failed to fetch user recipe sessions"]

StoreRecipes(userId, sourceIngredients, basicRecipes, advancedRecipes, out, written) ==
    /\ Len(rc.recipeSessions) < MaxStores
    /\ rc' = storeRecipeSession(rc, userId, Len(rc.recipeSessions) + 1,
                                sourceIngredients, basicRecipes, advancedRecipes,
                                now, out, written)
    /\ UNCHANGED now

RecentIngredients(userId, limitParam, out) ==
    /\ rc' = [rc EXCEPT !.call = getRecentIngredients(rc, userId, limitParam, out)]
    /\ UNCHANGED now

RecipeStep ==
    \/ \E u \in Users, src \in SourceIngredientLists, basic \in BasicRecipeLists,
          advanced \in AdvancedRecipeLists,
          out \in {"ok", "sessionFails", "recipesFail"},
          written \in 0..1 :
          StoreRecipes(u, src, basic, advanced, out, written)
    \/ \E u \in Users, limitParam \in 0..1, out \in {"ok", "fails"} :
          RecentIngredients(u, limitParam, out)
    \/ now < MaxStores /\ now' = now + 1 /\ UNCHANGED rc

----------------------------------------------------------------------------
(* The conversation store under any sequence of ChatService calls *)

RECURSIVE SavedTimes(_, _, _, _, _)
\* the store <<msgs, sess>> after n more successful saveMessage calls on
\* (u, s) at hour t
SavedTimes(store, u, s, t, n) ==
    IF n = 0 THEN store
    ELSE SavedTimes(<<InsertMessage(store[1],
                                    Message(u, s, "user", "general", "preloaded"), t),
                      UpdateSessionMessageCount(store[2], u, s, t)>>,
                    u, s, t, n - 1)

\* a session of u1 created at hour 0 with n messages saved in that hour
PreloadedStore(n) ==
    SavedTimes(<<(<<>>), WriteSession(<<>>, 0, "u1", "s1", "", 0)>>, "u1", "s1", 0, n)

\* the same with one message more, summarized in hour 0, and n messages saved
\* in hour 1
ResummarizedStore(n) ==
    LET first == PreloadedStore(n + 1)
        summary == Range(RecentMessages(first[1], "u1", "s1", SummaryWindowHours, 0))
    IN SavedTimes(<<first[1], WriteSummary(first[2], "u1", "s1", summary, 0,
                                            Len(first[1]))>>,
                  "u1", "s1", 1, n)

InitStore ==
    /\ messages = <<>>
    /\ sessions = <<>>
    /\ now = 0
    /\ ret = NoRet
    /\ InitTools
    /\ InitIdle
    /\ InitRequest
    /\ InitStream
    /\ InitDb
    /\ InitPrefs
    /\ InitRecipes

StoreStep ==
    \/ Tick(SummaryWindowHours)
    \/ \E k \in Keys, out \in {"ok", "insertFails", "countFails"} :
          SaveMessage(k[1], k[2], "user", out)
    \/ \E k \in Keys, title \in Titles, out \in {"ok", "fails"} :
          CreateOrUpdateSession(k[1], k[2], title, out)
    \/ \E k \in Keys, out \in {"ok", "fails"} :
          SaveContextSummary(k[1], k[2], out)

NextStore == StoreStep /\ UNCHANGED <<toolVars, h, rq, sse, db, pf, rc>>

SpecStore == InitStore /\ [][NextStore]_vars

----------------------------------------------------------------------------
(* The read operations of ChatService, applied to the stores that saves and *)
(* summaries build from an empty or a preloaded store                       *)

InitQuery ==
    /\ \/ messages = <<>> /\ sessions = <<>> /\ now = 0
       \/ /\ messages = PreloadedStore(Preload)[1]
          /\ sessions = PreloadedStore(Preload)[2]
          /\ now = 0
       \/ /\ messages = ResummarizedStore(Preload)[1]
          /\ sessions = ResummarizedStore(Preload)[2]
          /\ now = 1
    /\ ret = NoRet
    /\ InitTools
    /\ InitIdle
    /\ InitRequest
    /\ InitStream
    /\ InitDb
    /\ InitPrefs
    /\ InitRecipes

QueryStep ==
    \/ \E d \in TickSteps : Tick(d)
    \/ \E k \in Keys : SaveMessage(k[1], k[2], "user", "ok")
    \/ \E k \in Keys : SaveContextSummary(k[1], k[2], "ok")
    \/ \E k \in Keys, beforeDate \in BeforeDates,
          limit \in 1..MaxLimit, out \in {"ok", "fails"} :
          GetOlderMessages(k[1], k[2], beforeDate, limit, out)
    \/ \E k \in Keys, hoursBack \in {RecentHours, SummaryWindowHours},
          out \in {"ok", "fails"} :
          GetRecentMessages(k[1], k[2], hoursBack, out)
    \/ \E k \in Keys,
          out \in {"ok", "sessionReadFails", "messagesReadFails"} :
          ShouldSummarizeSession(k[1], k[2], out)

NextQuery == QueryStep /\ UNCHANGED <<toolVars, h, rq, sse, db, pf, rc>>

SpecQuery == InitQuery /\ [][NextQuery]_vars

----------------------------------------------------------------------------
(* The tool router called directly, as POST /api/tools does *)

InitToolSpec ==
    /\ messages = PreloadedStore(Preload)[1]
    /\ sessions = PreloadedStore(Preload)[2]
    /\ now = 0
    /\ ret = NoRet
    /\ InitTools
    /\ InitIdle
    /\ InitRequest
    /\ InitStream
    /\ InitDb
    /\ InitPrefs
    /\ InitRecipes

NextTools == ToolStep /\ UNCHANGED <<messages, sessions, now, ret, h, rq, sse, db, pf, rc>>

SpecTools == InitToolSpec /\ [][NextTools]_vars

----------------------------------------------------------------------------
(* The chat-history tool called over a stored session while messages are *)
(* saved and the clock runs                                              *)

NextHistory ==
    \/ \E u \in Users, params \in ParamChoices, env \in EnvChoices :
          ExecuteToolCall(u, "get_chat_history", params, env)
             /\ UNCHANGED <<messages, sessions, now, ret, h, rq, sse, db, pf, rc>>
    \/ \E k \in Keys :
          SaveMessage(k[1], k[2], "user", "ok")
             /\ toolRet' = NoToolRet /\ UNCHANGED <<users, h, rq, sse, db, pf, rc>>
    \/ \E d \in TickSteps :
          Tick(d) /\ toolRet' = NoToolRet /\ UNCHANGED <<users, h, rq, sse, db, pf, rc>>

SpecHistory == InitToolSpec /\ [][NextHistory]_vars

----------------------------------------------------------------------------
(* Concurrent chat requests of one user on a session that has more messages *)
(* than the summarization threshold; a day passes only between requests     *)

InitChat ==
    /\ messages = PreloadedStore(Preload + 1)[1]
    /\ sessions = PreloadedStore(Preload + 1)[2]
    /\ now = 0
    /\ ret = NoRet
    /\ InitTools
    /\ InitIdle
    /\ InitRequest
    /\ InitStream
    /\ InitDb
    /\ InitPrefs
    /\ InitRecipes

Quiet == \A p \in Procs : h[p].pc \in {"idle", "done"}

NextChat ==
    \/ ChatStep(Procs, {"u1", ""}, {"ok", "insertFails"}) /\ UNCHANGED <<ret, toolVars, rq, sse, db, pf, rc>>
    \/ Quiet /\ Tick(SummaryWindowHours) /\ UNCHANGED <<toolVars, h, rq, sse, db, pf, rc>>

SpecChat == InitChat /\ [][NextChat]_vars

----------------------------------------------------------------------------
(* Concurrent chat requests of one user on a session that does not exist yet *)

InitChatNew ==
    /\ messages = <<>>
    /\ sessions = <<>>
    /\ now = 0
    /\ ret = NoRet
    /\ InitTools
    /\ InitIdle
    /\ InitRequest
    /\ InitStream
    /\ InitDb
    /\ InitPrefs
    /\ InitRecipes

SpecChatNew == InitChatNew /\ [][NextChat]_vars

----------------------------------------------------------------------------
(* One chat request and one request at another endpoint, side by side *)

InitGate ==
    /\ \/ messages = <<>> /\ sessions = <<>>
       \/ /\ messages = PreloadedStore(Preload + 1)[1]
          /\ sessions = PreloadedStore(Preload + 1)[2]
    /\ now = 0
    /\ ret = NoRet
    /\ InitTools
    /\ InitIdle
    /\ InitRequest
    /\ InitStream
    /\ InitDb
    /\ InitPrefs
    /\ InitRecipes

NextGate ==
    \/ ChatStep({"p1"}, Users \cup {""}, {"ok", "insertFails", "countFails"})
          /\ UNCHANGED <<ret, toolVars, rq, sse, db, pf, rc>>
    \/ RequestStep /\ UNCHANGED <<ret, toolRet, h, sse, db, pf, rc>>
    \/ Quiet /\ rq.pc \in {"idle", "done"} /\ Tick(SummaryWindowHours)
          /\ UNCHANGED <<toolVars, h, rq, sse, db, pf, rc>>

SpecGate == InitGate /\ [][NextGate]_vars

----------------------------------------------------------------------------
(* One request at a streaming endpoint, on an empty store or on a session   *)
(* with earlier messages, while the clock runs                             *)

InitWorkflow ==
    /\ \/ messages = <<>> /\ sessions = <<>>
       \/ /\ messages = ResummarizedStore(Preload)[1]
          /\ sessions = ResummarizedStore(Preload)[2]
    /\ now = 1
    /\ ret = NoRet
    /\ InitTools
    /\ InitIdle
    /\ InitRequest
    /\ InitStream
    /\ InitDb
    /\ InitPrefs
    /\ InitRecipes

WorkflowStep ==
    StreamStep(Users \cup {""}) /\ UNCHANGED <<ret, toolVars, h, rq, db, pf>>

NextWorkflow ==
    \/ WorkflowStep
    \/ \E d \in TickSteps : Tick(d) /\ UNCHANGED <<toolVars, h, rq, sse, db, pf, rc>>

SpecWorkflow == InitWorkflow /\ [][NextWorkflow]_vars

\* The same request on a store that starts empty, served to its end: the
\* runtime runs the next node, and the route's continuation, once the awaited
\* call has answered
InitFairWorkflow ==
    /\ messages = <<>>
    /\ sessions = <<>>
    /\ now = 0
    /\ ret = NoRet
    /\ InitTools
    /\ InitIdle
    /\ InitRequest
    /\ InitStream
    /\ InitDb
    /\ InitPrefs
    /\ InitRecipes

FairWorkflow == InitFairWorkflow /\ [][NextWorkflow]_vars /\ WF_vars(WorkflowStep)

----------------------------------------------------------------------------
(* Callers of connectToDatabase, connection attempts that succeed or fail, *)
(* and a disconnect, in any order                                          *)

InitDbSpec ==
    /\ messages = <<>>
    /\ sessions = <<>>
    /\ now = 0
    /\ ret = NoRet
    /\ InitTools
    /\ InitIdle
    /\ InitRequest
    /\ InitStream
    /\ InitDb
    /\ InitPrefs
    /\ InitRecipes

NextDb ==
    DbStep /\ UNCHANGED <<messages, sessions, now, ret, toolVars, h, rq, sse, pf, rc>>

SpecDb == InitDbSpec /\ [][NextDb]_vars

----------------------------------------------------------------------------
(* Saves and reads of preferences, in the browser or on the server *)

InitPrefsSpec ==
    /\ messages = <<>>
    /\ sessions = <<>>
    /\ now = 0
    /\ ret = NoRet
    /\ InitTools
    /\ InitIdle
    /\ InitRequest
    /\ InitStream
    /\ InitDb
    /\ InitRecipes
    /\ \E isBrowser \in BOOLEAN : pf = IdlePrefs(isBrowser)

NextPrefs ==
    PrefsStep /\ UNCHANGED <<messages, sessions, now, ret, toolVars, h, rq, sse, db, rc>>

SpecPrefs == InitPrefsSpec /\ [][NextPrefs]_vars

----------------------------------------------------------------------------
(* Recipe generations stored for two users, some failing part-way, and the *)
(* recent-ingredients handler called in between, while the clock runs      *)

InitRecipeSpec ==
    /\ messages = <<>>
    /\ sessions = <<>>
    /\ now = 0
    /\ ret = NoRet
    /\ InitTools
    /\ InitIdle
    /\ InitRequest
    /\ InitStream
    /\ InitDb
    /\ InitPrefs
    /\ InitRecipes

NextRecipes ==
    RecipeStep /\ UNCHANGED <<messages, sessions, ret, toolVars, h, rq, sse, db, pf>>

SpecRecipes == InitRecipeSpec /\ [][NextRecipes]_vars

----------------------------------------------------------------------------
(* Claims about the conversation store *)

MessagesOf(u, s) ==
    {j \in 1..Len(messages) : messages[j].userId = u /\ messages[j].sessionId = s}

SessionsOf(sess, u, s) ==
    {i \in 1..Len(sess) : sess[i].userId = u /\ sess[i].sessionId = s}

\* C1: every session document's messageCount equals the number of stored
\* messages with its user id and session id.
C1_MessageCountMatches ==
    \A i \in 1..Len(sessions) :
        sessions[i].messageCount =
            Cardinality(MessagesOf(sessions[i].userId, sessions[i].sessionId))

\* the messages a getOlderMessages call recorded in ret chooses among
Qualifying == {j \in MessagesOf(ret.userId, ret.sessionId) :
                    messages[j].timestamp < ret.arg}

OlderResultSound ==
    /\ \A a \in 1..Len(ret.res) : ret.res[a] \in Qualifying
    /\ \A a, b \in 1..Len(ret.res) :
          a < b => /\ ret.res[a] # ret.res[b]
                   /\ messages[ret.res[a]].timestamp <= messages[ret.res[b]].timestamp
    /\ Len(ret.res) <= ret.limit

OlderResultNewest ==
    Cardinality(Qualifying) > ret.limit =>
        /\ Len(ret.res) = ret.limit
        /\ \A j \in Qualifying \ Range(ret.res), a \in 1..Len(ret.res) :
              messages[j].timestamp <= messages[ret.res[a]].timestamp

Unsummarized(i) ==
    {j \in MessagesOf(ret.userId, ret.sessionId) :
        /\ messages[j].timestamp >= now - SummaryWindowHours
        /\ sessions[i].summarized => messages[j].timestamp > sessions[i].lastSummarizedAt}

\* C5: shouldSummarizeSession answers true exactly when the session exists and
\* more than 5 of its messages of the last 24 hours are later than
\* lastSummarizedAt (all of them when it was never summarized); it answers
\* false for a session that does not exist and when a storage read fails.
C5_ShouldSummarize ==
    ret.op = "shouldSummarizeSession" =>
        ret.flag = (/\ ret.out = "ok"
                    /\ SessionsOf(sessions, ret.userId, ret.sessionId) # {}
                    /\ \E i \in SessionsOf(sessions, ret.userId, ret.sessionId) :
                          Cardinality(Unsummarized(i)) > SummarizeThreshold)

\* a summarized session that is due again, some of its messages not counting
C5_Witness ==
    /\ ret.op = "shouldSummarizeSession" /\ ret.flag
    /\ \E i \in SessionsOf(sessions, ret.userId, ret.sessionId) :
          /\ sessions[i].summarized
          /\ Unsummarized(i) # MessagesOf(ret.userId, ret.sessionId)

\* C7: createOrUpdateSession on an existing session changes its updatedAt and
\* nothing else; on an absent one it appends a session with the given title
\* or "New Recipe Chat" and messageCount 0; either way exactly one session
\* document has that key afterwards, and no message is touched.
C7_CreateOrUpdateSession ==
    [][\A k \in Keys, title \in Titles :
          CreateOrUpdateSession(k[1], k[2], title, "ok") =>
              LET i == FindOne(sessions, k[1], k[2]) IN
              /\ messages' = messages
              /\ Cardinality(SessionsOf(sessions', k[1], k[2])) = 1
              /\ IF i # 0
                 THEN /\ Len(sessions') = Len(sessions)
                      /\ \A j \in 1..Len(sessions) :
                            sessions'[j] = IF j = i
                                           THEN [sessions[j] EXCEPT !.updatedAt = now]
                                           ELSE sessions[j]
                 ELSE /\ Len(sessions') = Len(sessions) + 1
                      /\ SubSeq(sessions', 1, Len(sessions)) = sessions
                      /\ LET d == sessions'[Len(sessions')] IN
                            /\ d.userId = k[1] /\ d.sessionId = k[2]
                            /\ d.title = (IF title = "" THEN DefaultTitle ELSE title)
                            /\ d.messageCount = 0
                            /\ d.createdAt = now /\ d.updatedAt = now
                            /\ ~d.summarized]_vars

\* a session with messages and a summary whose updatedAt is later than its
\* creation, its summary and all its messages: it was last written by
\* createOrUpdateSession, which found it existing
C7_Witness ==
    \E i \in 1..Len(sessions) :
        /\ sessions[i].summarized
        /\ sessions[i].messageCount > 0
        /\ sessions[i].updatedAt > sessions[i].createdAt
        /\ sessions[i].updatedAt > sessions[i].lastSummarizedAt
        /\ \A j \in MessagesOf(sessions[i].userId, sessions[i].sessionId) :
              messages[j].timestamp < sessions[i].updatedAt

----------------------------------------------------------------------------
(* Claims about the tool router *)

\* the handler that belongs to each tool name
HandlerOf(tool) ==
    CASE tool = "get_chat_history" -> "getChatHistory"
      [] tool = "get_user_recipes" -> "getUserRecipes"
      [] tool = "search_recipes" -> "searchRecipes"
      [] tool = "get_recipe_details" -> "getRecipeDetails"
      [] tool = "get_user_preferences" -> "getUserPreferences"
      [] tool = "get_recent_ingredients" -> "getRecentIngredients"
      [] tool = "get_cooking_history" -> "getCookingHistory"
      [] tool = "search_conversations" -> "searchConversations"
      [] OTHER -> "default"

PreferenceFields ==
    {"dietaryRestrictions", "allergies", "favoriteIngredients", "dislikedIngredients",
     "cookingSkillLevel", "preferredCuisines"}

\* C2: executeTool with "get_user_preferences" and an empty parameter mapping
\* answers success=true with a data object of the six preference fields, each
\* empty, or "beginner" for the skill level, when the user has none stored.
C2_GetUserPreferences ==
    (toolRet.tool = "get_user_preferences" /\ toolRet.params = NoParams) =>
        /\ toolRet.response.success
        /\ toolRet.response.data.kind = "preferences"
        /\ PreferenceFields \subseteq DOMAIN toolRet.response.data
        /\ ~users[toolRet.userId].exists =>
              /\ toolRet.response.data.dietaryRestrictions = {}
              /\ toolRet.response.data.allergies = {}
              /\ toolRet.response.data.favoriteIngredients = {}
              /\ toolRet.response.data.dislikedIngredients = {}
              /\ toolRet.response.data.cookingSkillLevel = "beginner"
              /\ toolRet.response.data.preferredCuisines = {}

\* C3: executeTool never throws; an unknown tool name gives success=false,
\* data null and a message holding the tool name; a known name runs exactly
\* its own handler; a handler's exception comes back as a success=false
\* envelope.
C3_ExecuteToolTotal ==
    toolRet.tool # "" =>
        /\ ~toolRet.response.threw
        /\ toolRet.tool \notin ToolNames =>
              /\ toolRet.handlers = <<>>
              /\ ~toolRet.response.success
              /\ toolRet.response.data = NullData
              /\ toolRet.tool \in Range(toolRet.response.message)
        /\ toolRet.tool \in ToolNames => toolRet.handlers = <<HandlerOf(toolRet.tool)>>
        /\ toolRet.handlerThrew =>
              /\ ~toolRet.response.success
              /\ toolRet.response.data = NullData

\* a known tool whose handler threw, answered with an envelope
C3_Witness ==
    /\ toolRet.tool \in ToolNames
    /\ toolRet.handlerThrew
    /\ ~toolRet.response.threw
    /\ ~toolRet.response.success

----------------------------------------------------------------------------
(* Claims about the chat handler *)

\* C6: a session that has a summary and a lastSummarizedAt has every message
\* of the session with a timestamp at or before lastSummarizedAt covered by
\* the summary, also when another request saves a message between the
\* handler's read of the recent messages and its saveContextSummary.  The
\* messages meant are those saved before the summary was written: a message
\* saved after it in the same hour of the clock has a later timestamp.
C6_SummaryCoversUpTo ==
    \A i \in 1..Len(sessions) :
        sessions[i].summarized =>
            \A j \in MessagesOf(sessions[i].userId, sessions[i].sessionId) :
                (/\ j <= sessions[i].storedAtSummary
                 /\ messages[j].timestamp <= sessions[i].lastSummarizedAt) =>
                    j \in sessions[i].summary

\* C9: one run of the chat handler executes at most one tool and calls the
\* reply model at most twice; once the second response is in, the handler
\* only saves the reply, whatever the type of that response.
C9_OneToolRound ==
    \A p \in Procs :
        /\ h[p].toolCalls <= 1
        /\ h[p].modelCalls <= 2
        /\ h[p].modelCalls = 2 =>
              /\ h[p].toolCalls = 1
              /\ h[p].pc \in {"saveAssistant", "done"}

\* a finished request whose second model response was itself a tool_call
C9_Witness ==
    \E p \in Procs :
        /\ h[p].pc = "done" /\ h[p].status = 200
        /\ h[p].ai.type = "tool_call" /\ h[p].ai.message = SecondReply
        /\ h[p].toolCalls = 1 /\ h[p].modelCalls = 2

\* C10: when the first model response is a tool_call directive, the reply
\* persisted and returned is that of the second response or one of the fixed
\* fallback replies, never the message and type of the first-pass directive.
C10_ReplyFromSecondPass ==
    \A p \in Procs :
        (h[p].status = 200 /\ h[p].firstType = "tool_call") =>
            /\ h[p].ai.message \in {SecondReply, FoundFallback, TroubleFallback}
            /\ messages[h[p].assistantIdx].content = h[p].ai.message
            /\ messages[h[p].assistantIdx].messageType = h[p].ai.type

----------------------------------------------------------------------------
(* Claims about the endpoints' gates *)

NoEffects(r) == r.writes = 0 /\ r.toolCalls = 0 /\ r.modelCalls = 0

\* a request that has not passed the checks: not yet, or rejected by them
NotLetThrough(r) == r.pc \in {"idle", "parse"} \/ r.status \in {400, 401}

\* C8: a request that an endpoint rejects as unauthorized (401) or as
\* malformed (400: no message, ingredients, tool name or image) has made no
\* store write, no tool execution and no model call; while no request has
\* been let through, the stores are as they were.
C8_RejectedBeforeEffects ==
    /\ \A p \in Procs :
          h[p].status \in {400, 401} => NoEffects(h[p]) /\ h[p].summaryCalls = 0
    /\ rq.status \in {400, 401} => NoEffects(rq)
    /\ (\A p \in Procs : NotLetThrough(h[p])) /\ NotLetThrough(rq)
          => /\ messages \in {<<>>, PreloadedStore(Preload + 1)[1]}
             /\ sessions \in {<<>>, PreloadedStore(Preload + 1)[2]}
             /\ users = [u \in Users |-> NoUser]

\* a chat request rejected for its missing message next to a request of
\* another endpoint rejected as unauthorized
C8_Witness ==
    /\ h["p1"].status = 400 /\ h["p1"].pc = "done"
    /\ rq.status = 401 /\ rq.pc = "done"

----------------------------------------------------------------------------
(* Claims about the streaming endpoints and the workflow *)

SuccessKeys == {"response", "ingredients"}
ErrorKeys == {"error"}

\* C11: the event stream of the streaming chat endpoint and of the ingredient
\* detection, once closed, ends with its one done event, which carries either
\* a success payload or an error payload, never both and never none, and
\* every event before it is a {step, progress} event
C11_OneFinalEvent ==
    sse.closed =>
        /\ sse.events # <<>>
        /\ \A i \in 1..Len(sse.events) :
              IF i = Len(sse.events)
              THEN /\ sse.events[i].done
                   /\ (sse.events[i].keys \cap SuccessKeys # {})
                         # (sse.events[i].keys \cap ErrorKeys # {})
              ELSE ~sse.events[i].done /\ sse.events[i].keys = {}

WithoutOlderContext ==
    <<"loadPreferences", "loadContext", "checkContextNeed", "generateResponse",
      "saveResponse">>

WithOlderContext ==
    <<"loadPreferences", "loadContext", "checkContextNeed", "loadOlderContext",
      "generateResponse", "saveResponse">>

IsPrefix(s, t) == Len(s) <= Len(t) /\ s = SubSeq(t, 1, Len(s))

\* C12: the nodes a workflow run has visited are, in order, loadPreferences,
\* loadContext, checkContextNeed, generateResponse and saveResponse, each
\* once, with loadOlderContext once between checkContextNeed and
\* generateResponse exactly when needsOlderContext is true; a run that has
\* ended has visited them all, and nothing after saveResponse
C12_NodeOrder ==
    LET order == IF sse.state.needsOlderContext THEN WithOlderContext
                 ELSE WithoutOlderContext
    IN /\ IsPrefix(sse.visited, order)
       /\ (sse.endpoint = "stream" /\ sse.status = 200 /\ sse.pc \in {"END", "done"})
             => sse.visited = order

C12_Witness ==
    /\ sse.pc = "done"
    /\ sse.state.needsOlderContext
    /\ sse.visited = WithOlderContext

\* the messages tried that contain "yesterday", "earlier", "before" or
\* "previous" when case is ignored: "Yesterday", "EARLIER", "beforehand"
\* (before) and "my Previous"; "tonight", "yester day" and "befor" do not
TextsWithKeyword == {"Yesterday", "EARLIER", "beforehand", "my Previous"}

\* C13: once checkContextNeed has run, needsOlderContext is true exactly when
\* the first message, case ignored, contains one of the four substrings,
\* whatever the preferences, the context loaded and the reporter are
C13_ContextNeed ==
    Len(sse.visited) >= 3 =>
        (sse.state.needsOlderContext
            <=> sse.state.messages[1].content \in TextsWithKeyword)

C13_Witness ==
    /\ Len(sse.visited) >= 3
    /\ sse.state.needsOlderContext
    /\ sse.state.messages[1].content = "EARLIER"
    /\ sse.state.context # <<>>

StreamStarted == sse.endpoint = "stream" /\ sse.pc = "loadPreferences"

StreamEnded == sse.endpoint = "stream" /\ sse.status = 200 /\ sse.pc = "done"

\* what a step whose collaborator failed may change: the step report
\* (currentStep with its progress), the error of a failed model call, and the
\* null that a failed preference load answers
FailedStepKeepsState ==
    (sse.endpoint = "stream" /\ sse'.failed # sse.failed) =>
        LET step == sse'.failed \ sse.failed
        IN sse'.state =
              [sse.state EXCEPT !.currentStep = sse'.state.currentStep,
                                !.progress = sse'.state.progress,
                                !.error = IF step = {"model"}
                                          THEN "Failed to generate response" ELSE @,
                                !.preferences = IF step = {"preferences"}
                                                THEN "null" ELSE @]

C15_ApologyOnModelFailure ==
    (StreamEnded /\ "model" \in sse.failed) =>
        /\ sse.result = Apology
        /\ sse.result # sse.state.messages[1].content

\* C16: a message that saveResponse has persisted is an assistant message of
\* type general whose content is the reply generateResponse appended in this
\* run; a run in which generateResponse appended no reply persists nothing
C16_SavesTheReply ==
    sse.savedIdx # 0 =>
        /\ Len(sse.state.messages) = 2
        /\ sse.state.messages[2].role = "ai"
        /\ messages[sse.savedIdx].role = "assistant"
        /\ messages[sse.savedIdx].messageType = "general"
        /\ messages[sse.savedIdx].content = sse.state.messages[2].content

\* C17: after a workflow run whose model call answered and whose collaborators
\* all worked, the store holds, for the run's user and session, the user's
\* message and after it the assistant's reply
C17_BothHalvesStored ==
    (StreamEnded /\ sse.failed = {} /\ sse.reply # "") =>
        \E i, j \in 1..Len(messages) :
            /\ i < j
            /\ messages[i].timestamp <= messages[j].timestamp
            /\ messages[i].userId = sse.userId
            /\ messages[i].sessionId = sse.state.sessionId
            /\ messages[i].role = "user"
            /\ messages[i].content = sse.state.messages[1].content
            /\ messages[j].userId = sse.userId
            /\ messages[j].sessionId = sse.state.sessionId
            /\ messages[j].role = "assistant"
            /\ messages[j].content = sse.reply

\* C18: when the model's text has no JSON that parses, the recipe generation
\* answers 200 with one basic recipe, "Simple Stir Fry", no advanced recipe,
\* and in that recipe one ingredient per ingredient of the request, in the
\* request's order, with item the name, amount the quantity, and available
C18_FallbackRecipe ==
    (sse.endpoint = "generate" /\ sse.reply \in {"nojson", "badjson"}) =>
        /\ sse.pc = "done" => sse.status = 200
        /\ Len(sse.body.basicRecipes) = 1
        /\ sse.body.basicRecipes[1].name = "Simple Stir Fry"
        /\ sse.body.advancedRecipes = <<>>
        /\ Len(sse.body.basicRecipes[1].ingredients) = Len(sse.ingredients)
        /\ \A i \in 1..Len(sse.ingredients) :
              /\ sse.body.basicRecipes[1].ingredients[i].item = sse.ingredients[i].name
              /\ sse.body.basicRecipes[1].ingredients[i].amount
                    = sse.ingredients[i].quantity
              /\ sse.body.basicRecipes[1].ingredients[i].available

C18_Witness ==
    /\ sse.endpoint = "generate"
    /\ sse.pc = "done"
    /\ sse.reply = "nojson"
    /\ Len(sse.ingredients) = 2
    /\ sse.ingredients[1].name # sse.ingredients[2].name

\* the outcomes of the model call that the claim names: a JSON object of the
\* shape asked for, a text with no JSON that parses, and a failed call
NamedOutcomes == {"json", "nojson", "badjson", "throws"}

\* C19: whatever the outcome of the model call, a request let through to the
\* recipe generation ends with 200 and a list of recipes, and one let through
\* to the ingredient detection ends with a final event that carries
\* ingredients; neither ends with an error
C19_AlwaysUsablePayload ==
    (sse.pc = "done" /\ sse.reply \in NamedOutcomes) =>
        /\ sse.endpoint = "generate" =>
              /\ sse.status = 200
              /\ sse.body.kind = "recipes"
              /\ sse.body.basicRecipes # <<>>
        /\ sse.endpoint = "detect" =>
              /\ sse.events[Len(sse.events)].keys = {"ingredients"}
              /\ sse.result \in {"ingredients", "mixed ingredients"}

----------------------------------------------------------------------------
(* Claims about the cached database connection *)

\* C20: when every connection attempt so far has failed, the cached handle
\* and the cached promise are both empty; no caller awaits the promise of an
\* attempt that had already failed when the caller arrived; and a caller that
\* arrives after an attempt has succeeded, no disconnect having begun since,
\* does not fail
C20_RetryAfterFailure ==
    /\ (db.attempts # <<>> /\ Rejected(db.attempts) = 1..Len(db.attempts))
          => (db.conn = 0 /\ db.promise = 0)
    /\ \A c \in DbCallers :
          /\ db.callers[c].pc = "awaiting"
                => db.callers[c].awaited \notin db.callers[c].sawRejected
          /\ (db.callers[c].sawConnected /\ db.disconnects = 0)
                => db.callers[c].pc # "threw"

InFlight == {a \in 1..Len(db.attempts) : db.attempts[a] = "pending"}

\* once a handle is cached no call starts a further attempt
NoAttemptWhileCached ==
    [][db.conn # 0 => Len(db'.attempts) = Len(db.attempts)]_vars

\* C21: at most one connection attempt is in flight at a time, and the callers
\* that awaited the same attempt were given the same handle
C21_OneAttemptInFlight ==
    /\ Cardinality(InFlight) <= 1
    /\ \A c, d \in DbCallers :
          (/\ db.callers[c].pc = "returned"
           /\ db.callers[d].pc = "returned"
           /\ db.callers[c].awaited # 0
           /\ db.callers[c].awaited = db.callers[d].awaited)
             => db.callers[c].handle = db.callers[d].handle

----------------------------------------------------------------------------
(* Claims about the preference store *)

\* an object with every field, saved under its own user id
FullPreferences(p, userId) ==
    /\ p.userId = userId
    /\ \A f \in DOMAIN p : p[f] # Absent

\* C22: a read that comes right after a save of a full Preferences object P
\* for the same user returns an object equal to P field for field, whatever the
\* store held before
C22_RoundTrip ==
    (/\ pf.call.op = "get"
     /\ FullPreferences(pf.call.preferences, pf.call.userId))
        => pf.call.result = pf.call.preferences

----------------------------------------------------------------------------
(* Claims about the recipe store *)

\* the stored recipe sessions of a user
SessionsOfUser(userId) ==
    {i \in 1..Len(rc.recipeSessions) : rc.recipeSessions[i].userId = userId}

\* session i lists an ingredient of the name of e, in any case
UsesName(i, e) ==
    \E k \in 1..Len(rc.recipeSessions[i].sourceIngredients) :
        SameName(rc.recipeSessions[i].sourceIngredients[k], e)

\* C23: the data of get_recent_ingredients has no two ingredients whose names
\* are equal ignoring case, has at most limit entries, and each entry is the
\* occurrence of its name in the newest recipe session of the user that uses
\* the name
C23_RecentIngredients ==
    (rc.call.op = "recentIngredients" /\ ~rc.call.threw) =>
        LET data == rc.call.data
            mine == SessionsOfUser(rc.call.userId)
        IN  /\ \A a, b \in 1..Len(data) : a # b => ~SameName(data[a], data[b])
            /\ Len(data) <= rc.call.limit
            /\ \A a \in 1..Len(data) :
                  \E i \in mine :
                      /\ data[a] \in Range(rc.recipeSessions[i].sourceIngredients)
                      /\ \A j \in mine :
                            UsesName(j, data[a]) =>
                                rc.recipeSessions[j].createdAt
                                    <= rc.recipeSessions[i].createdAt

\* a call whose data leaves out an older session's occurrence of a name and
\* is cut to the limit
C23_Witness ==
    /\ rc.call.op = "recentIngredients"
    /\ ~rc.call.threw
    /\ Len(rc.call.data) = rc.call.limit
    /\ rc.call.count > rc.call.limit
    /\ \E j \in SessionsOfUser(rc.call.userId) :
          /\ UsesName(j, rc.call.data[1])
          /\ rc.call.data[1] \notin Range(rc.recipeSessions[j].sourceIngredients)

\* the names of the recipes a stored session lists
RecipeNames(session) ==
    {session.basicRecipes[k].name : k \in 1..Len(session.basicRecipes)}
        \cup {session.advancedRecipes[k].name : k \in 1..Len(session.advancedRecipes)}

\* C24: each document of the recipes collection belongs to a stored recipe
\* session of the same user with the same sourceIngredients, also after a
\* storeRecipeSession that failed part-way; and when the insert of the recipes
\* fails after the session was inserted, the caller gets the generic store
\* error and the session document stays
C24_RecipesTraceable ==
    /\ \A r \in 1..Len(rc.recipes) :
          \E i \in 1..Len(rc.recipeSessions) :
              /\ rc.recipeSessions[i].userId = rc.recipes[r].userId
              /\ rc.recipeSessions[i].sourceIngredients = rc.recipes[r].sourceIngredients
              /\ rc.recipes[r].name \in RecipeNames(rc.recipeSessions[i])
    /\ (rc.call.op = "store" /\ rc.call.threw /\ rc.call.stored # 0) =>
          /\ rc.call.error = StoreFailed
          /\ rc.call.stored <= Len(rc.recipeSessions)
          /\ rc.recipeSessions[rc.call.stored].userId = rc.call.userId

\* the insert of the recipes failed after one of two recipes was written, in
\* a store that holds another user's session
C24_Witness ==
    /\ rc.call.op = "store"
    /\ rc.call.threw
    /\ rc.call.stored = Len(rc.recipeSessions)
    /\ Len(rc.recipes) > 0
    /\ rc.recipes[Len(rc.recipes)].createdAt = rc.recipeSessions[rc.call.stored].createdAt
    /\ Len(rc.recipeSessions[rc.call.stored].basicRecipes)
          + Len(rc.recipeSessions[rc.call.stored].advancedRecipes) = 2
    /\ \E i \in 1..Len(rc.recipeSessions) :
          rc.recipeSessions[i].userId # rc.call.userId

----------------------------------------------------------------------------
(* Claims about the chat handler's failures and its concurrent requests *)

\* the handler's steps after saveMessage(userMessage)
AfterUserSave == {"loadContext", "model1", "tool", "model2", "saveAssistant"}

\* the messageCount of the session document of a key, 0 without a document
CountOf(sess, u, s) ==
    IF FindOne(sess, u, s) = 0 THEN 0 ELSE sess[FindOne(sess, u, s)].messageCount

\* C25: the step that saves the user message stores it and increments the
\* session's messageCount, and a later step of the request that fails answers
\* 500, stores no assistant message and leaves the messages and the sessions
\* as they are
C25_FailureKeepsUserMessage ==
    [][\A p \in Procs :
          /\ (h[p].pc = "saveUser" /\ h'[p].pc = "loadContext") =>
                /\ Len(messages') = Len(messages) + 1
                /\ messages'[Len(messages')].role = "user"
                /\ CountOf(sessions', h[p].userId, h[p].sessionId)
                      = CountOf(sessions, h[p].userId, h[p].sessionId) + 1
          /\ (h[p].pc \in AfterUserSave /\ h'[p].pc = "done" /\ h'[p].status # 200) =>
                /\ h'[p].status = 500
                /\ h'[p].assistantIdx = 0
                /\ messages' = messages
                /\ sessions' = sessions]_vars

----------------------------------------------------------------------------
(* Claims about the chat-history tool *)

\* C26: the messages get_chat_history returns for daysBack = d are messages
\* of the caller's session given, with timestamps within the last d days
C26_HistoryWithinDays ==
    (/\ toolRet.tool = "get_chat_history"
     /\ toolRet.response.success
     /\ toolRet.response.data.kind = "messages") =>
        LET daysBack == IF toolRet.params.daysBack = 0 THEN DefaultHistoryDays
                        ELSE toolRet.params.daysBack
            items == toolRet.response.data.items
        IN  \A k \in 1..Len(items) :
                /\ messages[items[k]].userId = toolRet.userId
                /\ messages[items[k]].sessionId = toolRet.params.sessionId
                /\ messages[items[k]].timestamp >= now - daysBack * HoursPerDay
                /\ messages[items[k]].timestamp <= now

----------------------------------------------------------------------------
(* Claims about the context the workflow loads *)

\* C27: once loadOlderContext has run, the context holds no stored message
\* twice and its timestamps ascend
C27_ContextInOrder ==
    (/\ sse.endpoint = "stream"
     /\ "loadOlderContext" \in Range(sse.visited)
     /\ "olderContext" \notin sse.failed) =>
        LET context == sse.state.context
        IN  /\ \A a, b \in 1..Len(context) : a # b => context[a] # context[b]
            /\ \A a, b \in 1..Len(context) :
                  a < b => messages[context[a]].timestamp
                              <= messages[context[b]].timestamp

\* C28: the sessions collection holds at most one document per (userId,
\* sessionId), also after concurrent requests on a new session
C28_OneSessionDocument ==
    \A i, j \in 1..Len(sessions) :
        (/\ sessions[i].userId = sessions[j].userId
         /\ sessions[i].sessionId = sessions[j].sessionId) => i = j

\* the messages of a session stored after the first n of the collection
SavedSince(n, u, s) ==
    {k \in (n + 1)..Len(messages) :
        messages[k].userId = u /\ messages[k].sessionId = s}

\* C29: when a chat request writes a summary to a session that was summarized
\* before, at least 6 messages were saved to the session since the earlier
\* write
C29_SixMessagesBetweenSummaries ==
    [][\A p \in Procs :
          LET i == FindOne(sessions, h[p].userId, h[p].sessionId)
          IN  (/\ h[p].pc = "saveSummary"
               /\ h'[p].pc = "saveUser"
               /\ i # 0
               /\ sessions[i].summarized) =>
                 Cardinality(SavedSince(sessions[i].storedAtSummary,
                                        h[p].userId, h[p].sessionId))
                     >= SummarizeThreshold + 1]_vars

----------------------------------------------------------------------------
(* Claims about messages saved without a session document *)

\* C30: when the workflow's saveResponse saves a message for a key that has
\* no session document, the message is appended to the messages and the
\* sessions collection stays as it is: no document is created and no count
\* changes
C30_SaveWithoutSession ==
    [][(/\ sse.pc = "saveResponse"
        /\ sse'.savedIdx # 0
        /\ FindOne(sessions, sse.state.userId, sse.state.sessionId) = 0) =>
          /\ Len(messages') = Len(messages) + 1
          /\ SubSeq(messages', 1, Len(messages)) = messages
          /\ messages'[Len(messages')].userId = sse.state.userId
          /\ messages'[Len(messages')].sessionId = sse.state.sessionId
          /\ messages'[Len(messages')].role = "assistant"
          /\ sessions' = sessions]_vars

\* a reply saved for a key without a session document while another
\* session is stored
C30_Witness ==
    /\ sse.savedIdx # 0
    /\ sse.savedIdx = Len(messages)
    /\ FindOne(sessions, sse.state.userId, sse.state.sessionId) = 0
    /\ Len(sessions) > 0

====
